---- MODULE Spec2Model ----
(***************************************************************************)
(* Turn determination and PR aggregation of the GH Dash dashboard.         *)
(*                                                                         *)
(*   lib/github.ts   determineMyPrTurn, determineReviewRequestTurn,        *)
(*                   buildReviewSummary, enrichPr                          *)
(*   api/prs/route.ts  GET: three searches, deduplication, enrichment,     *)
(*                   sortPrs                                               *)
(*   hooks/use-polling.ts, desktop hooks/use-dashboard-polling.ts          *)
(*                   fetchData, startPolling, stopPolling, refresh and     *)
(*                   the effects                                           *)
(*                                                                         *)
(* SpecMyPr      enrichPr on one authored PR ("my-prs")                    *)
(* SpecReviewReq enrichPr on one PR under review ("review-requests")       *)
(* SpecRoute     one run of GET /api/prs                                   *)
(* SpecEnrich    enrichPr on one PR of either section                      *)
(* SpecFrame     enrichPr on one authored PR, the author among the         *)
(*               reviewers                                                 *)
(* SpecSort      sortPrs on one array                                      *)
(* SpecFetch     githubFetch on one response                               *)
(* SpecRun       GET /api/prs request by request                           *)
(* SpecFanIn     step 4 of GET, every per-PR request succeeding            *)
(* SpecFold      enrichPr on one authored PR without pending requests      *)
(* SpecOrder     enrichPr on one authored PR, the reviews dated            *)
(* SpecMyPrTeams enrichPr on one authored PR with pending teams            *)
(* SpecPoll      usePolling and useDashboardPolling after the first render *)
(* SpecPollShown the same, first rendered in a visible document            *)
(***************************************************************************)
EXTENDS Integers, Sequences, FiniteSets, TLC

VARIABLES
    pc,                 \* position of the modelled computation
    section,            \* enrichPr: "my-prs" | "review-requests"
    reviews,            \* GitHubReview[] as returned by fetchReviews
    requestedReviewers, \* requestedReviewersData.users (logins)
    requestedTeams,     \* requestedReviewersData.teams (names)
    authorLogin,        \* item.user.login
    myUsername,         \* viewer's username handed to enrichPr
    isReviewRequested,  \* enrichPr's discovery flag
    mergeableState,     \* pullDetail?.mergeable_state ?? null
    turnStatus,         \* DashboardPR.turnStatus
    debugInfo,          \* DashboardPR.turnDebugInfo
    reviewSummary,      \* DashboardPR.reviewSummary
    turnLatestByUser,   \* determineMyPrTurn's local latestByUser
    summaryLatestByUser, \* buildReviewSummary's local latestByUser
    upstream,           \* GitHub's data of each PR during the run
    githubUsername,     \* GET: the viewer's resolved username
    myPrItems,          \* GET: result of the author search
    reviewRequestItems, \* GET: result of the review-requested search
    reviewedByItems,    \* GET: result of the reviewed-by search
    reviewRequestedIds, \* GET: ids of the review-requested result
    dedupedReviewItems, \* GET: merged review items without the viewer's own
    response,           \* GET: the response returned
    requests,           \* GET: the upstream requests of the run
    prsGiven,           \* sortPrs: the array handed over
    sortedPrs,          \* sortPrs: the array returned
    res,                \* githubFetch: the HTTP response of fetch
    fetched,            \* githubFetch: how the call ended
    hookProps,          \* polling hook: the options of the current render
    hookState,          \* polling hook: its React state
    hookRefs,           \* polling hook: intervalRef and isFirstFetch
    browser             \* polling hook: document.hidden, timers, fetches

enrichVars == <<pc, section, reviews, requestedReviewers, requestedTeams,
                authorLogin, myUsername, isReviewRequested, mergeableState,
                turnStatus, debugInfo, reviewSummary,
                turnLatestByUser, summaryLatestByUser>>

routeVars == <<upstream, githubUsername, myPrItems, reviewRequestItems,
               reviewedByItems, reviewRequestedIds, dedupedReviewItems, response,
               requests>>

sortVars == <<prsGiven, sortedPrs>>

\* calls followed on their own
fetchVars == <<res, fetched>>

\* the polling hooks
pollVars == <<hookProps, hookState, hookRefs, browser>>

callVars == <<sortVars, fetchVars, pollVars>>

vars == <<enrichVars, routeVars, callVars>>

----------------------------------------------------------------------------
(* Bounds *)

\* reviews of one PR
MaxReviews == 3
\* items of one search result
MaxItems == 2
\* PRs of one sortPrs call
MaxPrs == 3
\* fetches a mounted polling hook starts
MaxFetches == 4
\* interval timers a mounted polling hook creates
MaxTimers == 3
\* reviews of one PR where the reviews carry more than SpecMyPr gives
\* them: the author reviewing in every state, or the time of submission
MaxFrameReviews == 2

----------------------------------------------------------------------------
(* Values *)

\* JavaScript null and undefined
NULL == "<null>"
UNDEFINED == "<undefined>"

\* logins of the reviews: two reviewers and the PR's author, whose login
\* reaches the code in another letter case through another source
OtherReviewers == {"alice", "bob"}
AuthorReviewer == "Dave"

\* String.prototype.toLowerCase on the logins of the model
ToLower(s) ==
    CASE s = "Alice" -> "alice"
      [] s = "Bob" -> "bob"
      [] s = "Dave" -> "dave"
      [] OTHER -> s

ReviewStates == {"APPROVED", "CHANGES_REQUESTED", "COMMENTED", "DISMISSED", "PENDING"}

SUBMITTED_STATES == {"APPROVED", "CHANGES_REQUESTED", "COMMENTED", "DISMISSED"}

\* mergeable_state values of the pull detail, "behind" standing for the
\* strings the switch does not name
MergeableStates == {"clean", "blocked", "dirty", "unstable", "unknown", "behind", NULL, UNDEFINED}

\* GitHub accepts from a PR's author only comments; CHANGES_REQUESTED
\* stands for the other submitted states the review type allows
AuthorReviewStates == {"COMMENTED", "CHANGES_REQUESTED"}

Review == [login : OtherReviewers, state : ReviewStates]
          \cup [login : {AuthorReviewer}, state : AuthorReviewStates]

SeqsUpTo(S, n) == UNION {[1..k -> S] : k \in 0..n}

----------------------------------------------------------------------------
(* determineMyPrTurn *)

\* mutation: the author's own reviews are not excluded
reviewersWhoSubmitted_keepAuthor(revs, authorUsername) ==
    {ToLower(revs[i].login) : i \in {j \in DOMAIN revs :
        revs[j].state \in SUBMITTED_STATES}}

\* Step 1: reviewers who have submitted feedback (excluding author)
reviewersWhoSubmitted(revs, authorUsername) ==
    {ToLower(revs[i].login) : i \in {j \in DOMAIN revs :
        /\ revs[j].state \in SUBMITTED_STATES
        /\ ToLower(revs[j].login) # ToLower(authorUsername)}}

\* mutation: requested logins compared as received
requestedLogins_caseSensitive(requested) == {requested[i] : i \in DOMAIN requested}

\* Step 3: new Set(requestedReviewers.map((r) => r.login.toLowerCase()))
requestedLogins(requested) == {ToLower(requested[i]) : i \in DOMAIN requested}

\* mutation: one re-requested submitter suffices
allReRequested_some(revs, requested, authorUsername) ==
    \E login \in reviewersWhoSubmitted(revs, authorUsername) :
        login \in requestedLogins(requested)

\* Step 3: every reviewer who submitted is requested again
allReRequested(revs, requested, authorUsername) ==
    \A login \in reviewersWhoSubmitted(revs, authorUsername) :
        login \in requestedLogins(requested)

EmptyMap == [u \in {} |-> ""]

MapGet(m, k) == IF k \in DOMAIN m THEN m[k] ELSE UNDEFINED

MapSet(m, k, v) == (k :> v) @@ m

\* mutation: every submitted review overwrites the previous state
RECURSIVE latestByUserTurn_lastWins(_, _)
latestByUserTurn_lastWins(revs, authorUsername) ==
    IF revs = <<>> THEN EmptyMap
    ELSE LET n == Len(revs)
             acc == latestByUserTurn_lastWins(SubSeq(revs, 1, n - 1), authorUsername)
             review == revs[n]
         IN  IF /\ review.state \in SUBMITTED_STATES
                /\ ToLower(review.login) # ToLower(authorUsername)
             THEN MapSet(acc, ToLower(review.login), review.state)
             ELSE acc

\* Step 4: latest review state per user (excluding author), keyed by the
\* lower-cased login
RECURSIVE latestByUserTurn(_, _)
latestByUserTurn(revs, authorUsername) ==
    IF revs = <<>> THEN EmptyMap
    ELSE LET n == Len(revs)
             acc == latestByUserTurn(SubSeq(revs, 1, n - 1), authorUsername)
             review == revs[n]
             login == ToLower(review.login)
             prev == MapGet(acc, login)
         IN  IF /\ review.state \in SUBMITTED_STATES
                /\ ToLower(review.login) # ToLower(authorUsername)
             THEN IF /\ prev \in {"CHANGES_REQUESTED", "APPROVED"}
                     /\ review.state = "COMMENTED"
                  THEN acc
                  ELSE MapSet(acc, login, review.state)
             ELSE acc

\* Step 5: some reviewer's latest state is CHANGES_REQUESTED
hasChangesRequested(latestByUser) ==
    \E u \in DOMAIN latestByUser : latestByUser[u] = "CHANGES_REQUESTED"

\* mutation: merge conflicts wait on the reviewers
mergeResult_dirtyTheirs(ms) ==
    CASE ms = "clean" -> "my-turn"
      [] ms = "blocked" -> "their-turn"
      [] ms = "dirty" -> "their-turn"
      [] ms = "unstable" -> "my-turn"
      [] OTHER -> "my-turn"

\* Step 6: the switch over mergeable_state
mergeResult(ms) ==
    CASE ms = "clean" -> "my-turn"
      [] ms = "blocked" -> "their-turn"
      [] ms = "dirty" -> "my-turn"
      [] ms = "unstable" -> "my-turn"
      [] OTHER -> "my-turn"

\* mergeableState ?? "null"
stateStr(ms) == IF ms \in {NULL, UNDEFINED} THEN "null" ELSE ms

Check(label, result) == [label |-> label, result |-> result]

\* the locals of determineMyPrTurn that Steps 1 to 5 compute; they do not
\* read the merge state
MyPrLocals(revs, requested, authorUsername) ==
    LET latestByUser == latestByUserTurn(revs, authorUsername)
    IN  [noReviews |-> reviewersWhoSubmitted(revs, authorUsername) = {},
         allReRequested |-> allReRequested(revs, requested, authorUsername),
         latestByUser |-> latestByUser,
         hasChangesRequested |-> hasChangesRequested(latestByUser)]

\* mutation: all four checks are evaluated and recorded before the verdict
\* is returned
MyPrVerdict_allChecks(l, ms) ==
    LET c1 == Check("No reviews submitted yet",
                    IF l.noReviews THEN "their-turn" ELSE "skip")
        c2 == Check("All submitters re-requested",
                    IF l.allReRequested THEN "their-turn" ELSE "skip")
        c3 == Check("Changes requested",
                    IF l.hasChangesRequested THEN "my-turn" ELSE "skip")
        c4 == Check("Mergeable state: " \o stateStr(ms), mergeResult(ms))
        all == <<c1, c2, c3, c4>>
        first == CHOOSE i \in 1..4 :
                    /\ all[i].result # "skip"
                    /\ \A j \in 1..(i - 1) : all[j].result = "skip"
    IN  [turnStatus |-> all[first].result,
         latestByUser |-> IF first > 2 THEN l.latestByUser ELSE EmptyMap,
         debugInfo |-> [section |-> "my-prs", checks |-> all,
                        decidingCheck |-> all[first].label]]

\* The checks pushed and the early returns, given the locals.  The value
\* strings of the checks are display text that no branch reads; a check is
\* modelled by its label and result.  The result carries the local
\* latestByUser (empty when the function returned before Step 4).
MyPrVerdict(l, ms) ==
    LET c1 == Check("No reviews submitted yet",
                    IF l.noReviews THEN "their-turn" ELSE "skip")
        c2 == Check("All submitters re-requested",
                    IF l.allReRequested THEN "their-turn" ELSE "skip")
        c3 == Check("Changes requested",
                    IF l.hasChangesRequested THEN "my-turn" ELSE "skip")
        c4 == Check("Mergeable state: " \o stateStr(ms), mergeResult(ms))
    IN  IF l.noReviews
        THEN [turnStatus |-> "their-turn", latestByUser |-> EmptyMap,
              debugInfo |-> [section |-> "my-prs", checks |-> <<c1>>,
                             decidingCheck |-> "No reviews submitted yet"]]
        ELSE IF l.allReRequested
        THEN [turnStatus |-> "their-turn", latestByUser |-> EmptyMap,
              debugInfo |-> [section |-> "my-prs", checks |-> <<c1, c2>>,
                             decidingCheck |-> "All submitters re-requested"]]
        ELSE IF l.hasChangesRequested
        THEN [turnStatus |-> "my-turn", latestByUser |-> l.latestByUser,
              debugInfo |-> [section |-> "my-prs", checks |-> <<c1, c2, c3>>,
                             decidingCheck |-> "Changes requested"]]
        ELSE [turnStatus |-> mergeResult(ms), latestByUser |-> l.latestByUser,
              debugInfo |-> [section |-> "my-prs", checks |-> <<c1, c2, c3, c4>>,
                             decidingCheck |-> "Mergeable state: " \o stateStr(ms)]]

determineMyPrTurn(revs, requested, authorUsername, ms) ==
    MyPrVerdict(MyPrLocals(revs, requested, authorUsername), ms)

----------------------------------------------------------------------------
(* determineReviewRequestTurn *)

\* mutation: the viewer's login compared as received
myReviewRequested_caseSensitive(requested, me) ==
    \E i \in DOMAIN requested : requested[i] = me

\* Check 1: my review is individually requested
myReviewRequested(requested, me) ==
    \E i \in DOMAIN requested : ToLower(requested[i]) = ToLower(me)

\* mutation: a pending team request suffices
requestedViaTeam_teamsOnly(teams, isRR) == Len(teams) > 0

\* Check 2: found by the review-requested search and a team is pending
requestedViaTeam(teams, isRR) == isRR /\ Len(teams) > 0

determineReviewRequestTurn(revs, requested, teams, me, isRR) ==
    LET mine == myReviewRequested(requested, me)
        c1 == Check("My review requested", IF mine THEN "my-turn" ELSE "skip")
        viaTeam == requestedViaTeam(teams, isRR)
        c2 == Check("My review requested (via team)",
                    IF viaTeam THEN "my-turn" ELSE "their-turn")
    IN  IF mine
        THEN [turnStatus |-> "my-turn",
              debugInfo |-> [section |-> "review-requests", checks |-> <<c1>>,
                             decidingCheck |-> "My review requested"]]
        ELSE [turnStatus |-> IF viaTeam THEN "my-turn" ELSE "their-turn",
              debugInfo |-> [section |-> "review-requests", checks |-> <<c1, c2>>,
                             decidingCheck |-> "My review requested (via team)"]]

----------------------------------------------------------------------------
(* buildReviewSummary *)

\* mutation: every submitted review overwrites the previous state
RECURSIVE latestByUserSummary_lastWins(_)
latestByUserSummary_lastWins(revs) ==
    IF revs = <<>> THEN EmptyMap
    ELSE LET n == Len(revs)
             acc == latestByUserSummary_lastWins(SubSeq(revs, 1, n - 1))
             review == revs[n]
         IN  IF review.state \in SUBMITTED_STATES
             THEN MapSet(acc, review.login, review.state)
             ELSE acc

\* latest review state per reviewer, keyed by the login as received
RECURSIVE latestByUserSummary(_)
latestByUserSummary(revs) ==
    IF revs = <<>> THEN EmptyMap
    ELSE LET n == Len(revs)
             acc == latestByUserSummary(SubSeq(revs, 1, n - 1))
             review == revs[n]
             prev == MapGet(acc, review.login)
         IN  IF review.state \in SUBMITTED_STATES
             THEN IF /\ prev \in {"CHANGES_REQUESTED", "APPROVED"}
                     /\ review.state = "COMMENTED"
                  THEN acc
                  ELSE MapSet(acc, review.login, review.state)
             ELSE acc

\* counts[state]: the reviewers whose latest state it is
counts(latestByUser, state) ==
    Cardinality({u \in DOMAIN latestByUser : latestByUser[u] = state})

\* Array.prototype.join(", ")
RECURSIVE Join(_)
Join(parts) ==
    IF parts = <<>> THEN ""
    ELSE IF Len(parts) = 1 THEN parts[1]
    ELSE parts[1] \o ", " \o Join(Tail(parts))

\* mutation: the suffix reads "teams" for one team too
teamSuffix_alwaysPlural(teams) ==
    IF Len(teams) > 0
    THEN " (" \o ToString(Len(teams)) \o " teams)"
    ELSE ""

\* the annotation of the pending part
teamSuffix(teams) ==
    IF Len(teams) > 0
    THEN " (" \o ToString(Len(teams)) \o " team" \o (IF Len(teams) > 1 THEN "s" ELSE "") \o ")"
    ELSE ""

\* a part of the summary, pushed when its count is not zero
part(n, text) == IF n # 0 THEN <<ToString(n) \o text>> ELSE <<>>

\* mutation: dismissed reviews get a part of their own
buildReviewSummary_dismissedPart(revs, requested, teams) ==
    LET latestByUser == latestByUserSummary(revs)
        pendingCount == Len(requested) + Len(teams)
        parts == part(counts(latestByUser, "APPROVED"), " approved")
              \o part(counts(latestByUser, "CHANGES_REQUESTED"), " changes requested")
              \o part(counts(latestByUser, "COMMENTED"), " commented")
              \o part(counts(latestByUser, "DISMISSED"), " dismissed")
              \o part(pendingCount, " pending" \o teamSuffix(teams))
    IN  IF Len(parts) > 0 THEN Join(parts) ELSE "No reviews"

buildReviewSummary(revs, requested, teams) ==
    LET latestByUser == latestByUserSummary(revs)
        pendingCount == Len(requested) + Len(teams)
        parts == part(counts(latestByUser, "APPROVED"), " approved")
              \o part(counts(latestByUser, "CHANGES_REQUESTED"), " changes requested")
              \o part(counts(latestByUser, "COMMENTED"), " commented")
              \o part(pendingCount, " pending" \o teamSuffix(teams))
    IN  IF Len(parts) > 0 THEN Join(parts) ELSE "No reviews"

----------------------------------------------------------------------------
(* enrichPr on one PR *)

NoDebug == [section |-> "", checks |-> <<>>, decidingCheck |-> ""]

\* a response not yet received
NotFetched == "<pending>"

\* requestedReviewersData.users and .teams as GitHub may return them
RequestedLists == {<<>>, <<"Alice">>, <<"bob">>, <<"Alice", "bob">>}
TeamLists == {<<>>, <<"platform">>, <<"platform", "infra">>}

\* pullDetail?.mergeable_state ?? null
nullish(ms) == IF ms = UNDEFINED THEN NULL ELSE ms

NoResponse ==
    [status |-> 0, code |-> "", error |-> "", myPrs |-> <<>>,
     reviewRequests |-> <<>>, githubUsername |-> ""]

NotReturned == "<not returned>"

\* no call followed on its own
\* no polling hook mounted
PollIdle ==
    /\ hookProps = NULL
    /\ hookState = NULL
    /\ hookRefs = NULL
    /\ browser = NULL

CallIdle ==
    /\ prsGiven = <<>>
    /\ sortedPrs = NotReturned
    /\ res = NotReturned
    /\ fetched = NotReturned
    /\ PollIdle

\* no run of the route
RouteIdle ==
    /\ upstream = <<>>
    /\ githubUsername = ""
    /\ myPrItems = <<>>
    /\ reviewRequestItems = <<>>
    /\ reviewedByItems = <<>>
    /\ reviewRequestedIds = {}
    /\ dedupedReviewItems = <<>>
    /\ response = NoResponse
    /\ requests = <<>>

\* reviews and requested reviewers of an authored PR have arrived
InitMyPr ==
    /\ pc = "fetched"
    /\ section = "my-prs"
    /\ reviews \in SeqsUpTo(Review, MaxReviews)
    /\ requestedReviewers \in RequestedLists
    /\ requestedTeams = <<>>
    /\ authorLogin = "dave"
    /\ myUsername = "dave"
    /\ isReviewRequested = FALSE
    /\ mergeableState = NotFetched
    /\ turnStatus = ""
    /\ debugInfo = NoDebug
    /\ reviewSummary = ""
    /\ turnLatestByUser = EmptyMap
    /\ summaryLatestByUser = EmptyMap
    /\ RouteIdle
    /\ CallIdle

\* reviews and requested reviewers of a PR under review have arrived
InitReviewReq ==
    /\ pc = "fetched"
    /\ section = "review-requests"
    /\ reviews \in SeqsUpTo(Review, MaxReviews)
    /\ requestedReviewers \in RequestedLists
    /\ requestedTeams \in TeamLists
    /\ authorLogin = "Dave"
    /\ myUsername = "Bob"
    /\ isReviewRequested = FALSE
    /\ mergeableState = NotFetched
    /\ turnStatus = ""
    /\ debugInfo = NoDebug
    /\ reviewSummary = ""
    /\ turnLatestByUser = EmptyMap
    /\ summaryLatestByUser = EmptyMap
    /\ RouteIdle
    /\ CallIdle

\* enrichPr, section "my-prs", from the pull detail's arrival on: the
\* verdict, determineMyPrTurn(reviews, requestedReviewers, item.user.login,
\* mergeableState), and the summary
EnrichMyPr ==
    /\ pc = "fetched"
    /\ section = "my-prs"
    /\ reviewSummary' = buildReviewSummary(reviews, requestedReviewers, requestedTeams)
    /\ summaryLatestByUser' = latestByUserSummary(reviews)
    /\ pc' = "enriched"
    /\ UNCHANGED <<section, reviews, requestedReviewers, requestedTeams,
                   authorLogin, myUsername, isReviewRequested>>
    /\ UNCHANGED routeVars
    /\ UNCHANGED callVars
    /\ LET locals == MyPrLocals(reviews, requestedReviewers, authorLogin)
       IN  \E ms \in MergeableStates :
             LET r == MyPrVerdict(locals, nullish(ms))
             IN  /\ mergeableState' = ms
                 /\ turnStatus' = r.turnStatus
                 /\ debugInfo' = r.debugInfo
                 /\ turnLatestByUser' = r.latestByUser

\* enrichPr, section "review-requests"; the discovery flag is the caller's
EnrichReviewRequest ==
    /\ pc = "fetched"
    /\ section = "review-requests"
    /\ reviewSummary' = buildReviewSummary(reviews, requestedReviewers, requestedTeams)
    /\ summaryLatestByUser' = latestByUserSummary(reviews)
    /\ mergeableState' = NULL
    /\ turnLatestByUser' = EmptyMap
    /\ pc' = "enriched"
    /\ UNCHANGED <<section, reviews, requestedReviewers, requestedTeams,
                   authorLogin, myUsername>>
    /\ UNCHANGED routeVars
    /\ UNCHANGED callVars
    /\ \E isRR \in BOOLEAN :
        LET r == determineReviewRequestTurn(reviews, requestedReviewers,
                                            requestedTeams, myUsername, isRR)
        IN  /\ isReviewRequested' = isRR
            /\ turnStatus' = r.turnStatus
            /\ debugInfo' = r.debugInfo

NextMyPr == EnrichMyPr

SpecMyPr == InitMyPr /\ [][NextMyPr]_vars

NextReviewReq == EnrichReviewRequest

SpecReviewReq == InitReviewReq /\ [][NextReviewReq]_vars


\* reviews as the GitHubReview type allows them: the author's own, under
\* the login of the PR or in another letter case, take every state
FrameReview == [login : OtherReviewers \cup {AuthorReviewer, "dave"},
                state : ReviewStates]

\* reviews and requested reviewers of an authored PR have arrived, the
\* author's reviews among them
InitFrame ==
    /\ pc = "fetched"
    /\ section = "my-prs"
    /\ reviews \in SeqsUpTo(FrameReview, MaxFrameReviews)
    /\ requestedReviewers \in RequestedLists
    /\ requestedTeams = <<>>
    /\ authorLogin = "dave"
    /\ myUsername = "dave"
    /\ isReviewRequested = FALSE
    /\ mergeableState = NotFetched
    /\ turnStatus = ""
    /\ debugInfo = NoDebug
    /\ reviewSummary = ""
    /\ turnLatestByUser = EmptyMap
    /\ summaryLatestByUser = EmptyMap
    /\ RouteIdle
    /\ CallIdle

SpecFrame == InitFrame /\ [][NextMyPr]_vars

\* reviews with their submitted_at, which no code reads
TimedReview == [login : OtherReviewers, state : ReviewStates,
                submitted_at : 1..MaxFrameReviews]

\* review lists in any order of submission: the reviews of a list were
\* submitted at the times 1..n, one at each
TimedLists ==
    {revs \in SeqsUpTo(TimedReview, MaxFrameReviews) :
        \A t \in 1..Len(revs) : \E i \in 1..Len(revs) : revs[i].submitted_at = t}

\* reviews and requested reviewers of an authored PR have arrived, the
\* reviews in the order of the response
InitOrder ==
    /\ pc = "fetched"
    /\ section = "my-prs"
    /\ reviews \in TimedLists
    /\ requestedReviewers \in RequestedLists
    /\ requestedTeams = <<>>
    /\ authorLogin = "dave"
    /\ myUsername = "dave"
    /\ isReviewRequested = FALSE
    /\ mergeableState = NotFetched
    /\ turnStatus = ""
    /\ debugInfo = NoDebug
    /\ reviewSummary = ""
    /\ turnLatestByUser = EmptyMap
    /\ summaryLatestByUser = EmptyMap
    /\ RouteIdle
    /\ CallIdle

SpecOrder == InitOrder /\ [][NextMyPr]_vars

\* reviews of an authored PR have arrived and nobody is asked to review
\* again, so that determineMyPrTurn reaches its fold whenever a reviewer
\* has submitted
InitFold == InitMyPr /\ requestedReviewers = <<>>

SpecFold == InitFold /\ [][NextMyPr]_vars

\* reviews, requested reviewers and requested teams of an authored PR
\* have arrived
InitMyPrTeams ==
    /\ pc = "fetched"
    /\ section = "my-prs"
    /\ reviews \in SeqsUpTo(Review, MaxFrameReviews)
    /\ requestedReviewers \in RequestedLists
    /\ requestedTeams \in TeamLists
    /\ authorLogin = "dave"
    /\ myUsername = "dave"
    /\ isReviewRequested = FALSE
    /\ mergeableState = NotFetched
    /\ turnStatus = ""
    /\ debugInfo = NoDebug
    /\ reviewSummary = ""
    /\ turnLatestByUser = EmptyMap
    /\ summaryLatestByUser = EmptyMap
    /\ RouteIdle
    /\ CallIdle

SpecMyPrTeams == InitMyPrTeams /\ [][NextMyPr]_vars

\* enrichPr on one PR of either section
InitEnrich == InitMyPr \/ InitReviewReq

NextEnrich == EnrichMyPr \/ EnrichReviewRequest

SpecEnrich == InitEnrich /\ [][NextEnrich]_vars

----------------------------------------------------------------------------
(* GET /api/prs *)

PRIds == {1, 2, 3, 4}

\* logins under which the viewer's username may be resolved
ViewerLogins == {"dave", "Dave"}

PullData(login, updated_at, revs, users, teams, mergeable_state) ==
    [login |-> login, updated_at |-> updated_at, reviews |-> revs,
     users |-> users, teams |-> teams, mergeable_state |-> mergeable_state]

\* GitHub's open PRs: 1 and 2 are the viewer's, 3 and 4 are others'
Worlds ==
    { [id \in PRIds |->
         CASE id = 1 -> PullData("Dave", 10, <<>>, <<>>, <<"platform">>, "clean")
           [] id = 2 -> PullData("Dave", 20,
                                 <<[login |-> "alice", state |-> "CHANGES_REQUESTED"]>>,
                                 <<>>, <<>>, "dirty")
           [] id = 3 -> PullData("alice", 30, <<>>, users3, teams3, "blocked")
           [] id = 4 -> PullData("bob", 30,
                                 <<[login |-> "Dave", state |-> "APPROVED"]>>,
                                 <<>>, <<"platform">>, "blocked")]
      : users3 \in {<<>>, <<"Dave">>}, teams3 \in {<<>>, <<"platform">>} }

\* GitHubSearchItem of a PR
Item(id) ==
    [id |-> id, login |-> upstream[id].login, updated_at |-> upstream[id].updated_at]

\* duplicate-free result pages over a set of PRs
SearchResults(ids) ==
    { [i \in 1..Len(s) |-> Item(s[i])] :
        s \in { t \in SeqsUpTo(ids, MaxItems) :
                  \A i, j \in 1..Len(t) : i # j => t[i] # t[j] } }

\* PRs matching author:<username>
AuthoredBy(username) ==
    { id \in PRIds : ToLower(upstream[id].login) = ToLower(username) }

ItemIds(items) == { items[i].id : i \in 1..Len(items) }

\* mutation: the lists are concatenated
reviewItemsMap_concat(items) == items

\* new Map(); for (const item of items) map.set(item.id, item); the
\* entries in insertion order
RECURSIVE reviewItemsMap(_)
reviewItemsMap(items) ==
    IF items = <<>> THEN <<>>
    ELSE LET m == reviewItemsMap(SubSeq(items, 1, Len(items) - 1))
             item == items[Len(items)]
         IN  IF \E i \in 1..Len(m) : m[i].id = item.id
             THEN [i \in 1..Len(m) |-> IF m[i].id = item.id THEN item ELSE m[i]]
             ELSE Append(m, item)

\* mutation: the logins compared as received
notAuthoredBy_caseSensitive(items, username) ==
    SelectSeq(items, LAMBDA item : item.login # username)

\* mutation: nothing removed
notAuthoredBy_keepAll(items, username) ==
    SelectSeq(items, LAMBDA item : TRUE)

\* .filter(item => item.user.login.toLowerCase() !== githubUsername.toLowerCase())
notAuthoredBy(items, username) ==
    SelectSeq(items, LAMBDA item : ToLower(item.login) # ToLower(username))

\* the merge state enrichPr works with: the pull detail is fetched in
\* section "my-prs" and is null otherwise
mergeableStateIn(id, sec) ==
    IF sec = "my-prs" THEN nullish(upstream[id].mergeable_state) ELSE NULL

\* enrichPr with GitHub's answers for the PR
enrichPr(item, sec, me, isRR) ==
    LET d == upstream[item.id]
        ms == mergeableStateIn(item.id, sec)
        t == IF sec = "my-prs"
             THEN determineMyPrTurn(d.reviews, d.users, item.login, ms)
             ELSE determineReviewRequestTurn(d.reviews, d.users, d.teams, me, isRR)
    IN  [id |-> item.id,
         author |-> item.login,
         turnStatus |-> t.turnStatus,
         turnDebugInfo |-> t.debugInfo,
         updatedAt |-> item.updated_at,
         reviewSummary |-> buildReviewSummary(d.reviews, d.users, d.teams)]

\* mutation: the older update first
compare_oldestFirst(a, b) ==
    IF a.turnStatus # b.turnStatus
    THEN IF a.turnStatus = "my-turn" THEN -1 ELSE 1
    ELSE a.updatedAt - b.updatedAt

\* sortPrs's comparator
compare(a, b) ==
    IF a.turnStatus # b.turnStatus
    THEN IF a.turnStatus = "my-turn" THEN -1 ELSE 1
    ELSE b.updatedAt - a.updatedAt

\* Array.prototype.sort with the comparator: a stable sort
RECURSIVE sortPrs(_)
sortPrs(prs) ==
    IF prs = <<>> THEN <<>>
    ELSE LET sorted == sortPrs(SubSeq(prs, 1, Len(prs) - 1))
             x == prs[Len(prs)]
             k == Cardinality({ i \in 1..Len(sorted) : compare(sorted[i], x) <= 0 })
         IN  SubSeq(sorted, 1, k) \o <<x>> \o SubSeq(sorted, k + 1, Len(sorted))

ErrorResponse(status, code) ==
    [status |-> status, code |-> code, error |-> "", myPrs |-> <<>>,
     reviewRequests |-> <<>>, githubUsername |-> ""]

\* isRateLimited ? 429 : 502
FailureResponse(isRateLimited) ==
    IF isRateLimited THEN ErrorResponse(429, "RATE_LIMITED")
    ELSE ErrorResponse(502, "GITHUB_API_ERROR")

AuthFailures ==
    { ErrorResponse(401, "UNAUTHORIZED"), ErrorResponse(400, "PAT_NOT_CONFIGURED"),
      ErrorResponse(502, "GITHUB_API_ERROR"), ErrorResponse(400, "NO_GITHUB_ACCOUNT") }

\* no enrichPr call of its own is followed
EnrichIdle ==
    /\ section = ""
    /\ reviews = <<>>
    /\ requestedReviewers = <<>>
    /\ requestedTeams = <<>>
    /\ authorLogin = ""
    /\ myUsername = ""
    /\ isReviewRequested = FALSE
    /\ mergeableState = NotFetched
    /\ turnStatus = ""
    /\ debugInfo = NoDebug
    /\ reviewSummary = ""
    /\ turnLatestByUser = EmptyMap
    /\ summaryLatestByUser = EmptyMap

enrichLocals == <<section, reviews, requestedReviewers, requestedTeams,
                  authorLogin, myUsername, isReviewRequested, mergeableState,
                  turnStatus, debugInfo, reviewSummary,
                  turnLatestByUser, summaryLatestByUser>>

InitRoute ==
    /\ pc = "start"
    /\ EnrichIdle
    /\ CallIdle
    /\ upstream \in Worlds
    /\ githubUsername = ""
    /\ myPrItems = <<>>
    /\ reviewRequestItems = <<>>
    /\ reviewedByItems = <<>>
    /\ reviewRequestedIds = {}
    /\ dedupedReviewItems = <<>>
    /\ response = NoResponse
    /\ requests = <<>>

\* steps 1 and 2 of GET: the session and the GitHub identity
Authenticate ==
    /\ pc = "start"
    /\ \/ /\ \E username \in ViewerLogins : githubUsername' = username
          /\ pc' = "searching"
          /\ UNCHANGED response
       \/ /\ \E failure \in AuthFailures : response' = failure
          /\ pc' = "responded"
          /\ UNCHANGED githubUsername
    /\ UNCHANGED <<upstream, myPrItems, reviewRequestItems, reviewedByItems,
                   reviewRequestedIds, dedupedReviewItems, requests>>
    /\ UNCHANGED enrichLocals
    /\ UNCHANGED callVars

\* the three searches resolve; the review lists are merged
SearchesResolve ==
    /\ pc = "searching"
    /\ \E my \in SearchResults(AuthoredBy(githubUsername)),
          rr \in SearchResults(PRIds), rb \in SearchResults(PRIds) :
          /\ myPrItems' = my
          /\ reviewRequestItems' = rr
          /\ reviewedByItems' = rb
          /\ reviewRequestedIds' = ItemIds(rr)
          /\ dedupedReviewItems' = notAuthoredBy(reviewItemsMap(rr \o rb), githubUsername)
    /\ pc' = "enriching"
    /\ UNCHANGED <<upstream, githubUsername, response, requests>>
    /\ UNCHANGED enrichLocals
    /\ UNCHANGED callVars

\* one of the searches rejects
SearchesReject ==
    /\ pc = "searching"
    /\ \E isRateLimited \in BOOLEAN : response' = FailureResponse(isRateLimited)
    /\ pc' = "responded"
    /\ UNCHANGED <<upstream, githubUsername, myPrItems, reviewRequestItems,
                   reviewedByItems, reviewRequestedIds, dedupedReviewItems, requests>>
    /\ UNCHANGED enrichLocals
    /\ UNCHANGED callVars

\* every enrichPr call resolves; both categories are sorted and returned
EnrichResolve ==
    /\ pc = "enriching"
    /\ LET myPrs == [i \in 1..Len(myPrItems) |->
                       enrichPr(myPrItems[i], "my-prs", githubUsername, FALSE)]
           reviewRequests ==
               [i \in 1..Len(dedupedReviewItems) |->
                  enrichPr(dedupedReviewItems[i], "review-requests", githubUsername,
                           dedupedReviewItems[i].id \in reviewRequestedIds)]
       IN  response' = [status |-> 200, code |-> "", error |-> "",
                        myPrs |-> sortPrs(myPrs),
                        reviewRequests |-> sortPrs(reviewRequests),
                        githubUsername |-> githubUsername]
    /\ pc' = "responded"
    /\ UNCHANGED <<upstream, githubUsername, myPrItems, reviewRequestItems,
                   reviewedByItems, reviewRequestedIds, dedupedReviewItems, requests>>
    /\ UNCHANGED enrichLocals
    /\ UNCHANGED callVars

\* one of the enrichPr calls rejects
EnrichReject ==
    /\ pc = "enriching"
    /\ Len(myPrItems) + Len(dedupedReviewItems) > 0
    /\ \E isRateLimited \in BOOLEAN : response' = FailureResponse(isRateLimited)
    /\ pc' = "responded"
    /\ UNCHANGED <<upstream, githubUsername, myPrItems, reviewRequestItems,
                   reviewedByItems, reviewRequestedIds, dedupedReviewItems, requests>>
    /\ UNCHANGED enrichLocals
    /\ UNCHANGED callVars

NextRoute ==
    \/ Authenticate
    \/ SearchesResolve
    \/ SearchesReject
    \/ EnrichResolve
    \/ EnrichReject

SpecRoute == InitRoute /\ [][NextRoute]_vars

----------------------------------------------------------------------------
(* sortPrs on one array *)

\* updatedAt as Date.getTime() reads it
Times == {1, 2, 3}

\* the fields of a DashboardPR the comparator reads; id is the position in
\* the array handed over
SortablePrs ==
    { [i \in 1..Len(s) |-> [id |-> i, turnStatus |-> s[i][1], updatedAt |-> s[i][2]]] :
        s \in SeqsUpTo({"my-turn", "their-turn"} \X Times, MaxPrs) }

InitSort ==
    /\ pc = "called"
    /\ EnrichIdle
    /\ RouteIdle
    /\ prsGiven \in SortablePrs
    /\ sortedPrs = NotReturned
    /\ res = NotReturned
    /\ fetched = NotReturned
    /\ PollIdle

\* prs.sort(...) sorts in place and returns the array
SortPrs ==
    /\ pc = "called"
    /\ sortedPrs' = sortPrs(prsGiven)
    /\ pc' = "returned"
    /\ UNCHANGED prsGiven
    /\ UNCHANGED fetchVars
    /\ UNCHANGED pollVars
    /\ UNCHANGED enrichLocals
    /\ UNCHANGED routeVars

NextSort == SortPrs

SpecSort == InitSort /\ [][NextSort]_vars

----------------------------------------------------------------------------
(* githubFetch on one response *)

\* body.slice(0, 200)
ExcerptLength == 200

\* String.prototype.startsWith
startsWith(str, prefix) ==
    /\ Len(str) >= Len(prefix)
    /\ SubSeq(str, 1, Len(prefix)) = prefix

\* String.prototype.includes
includes(str, sub) ==
    \E i \in 1..(Len(str) - Len(sub) + 1) : SubSeq(str, i, i + Len(sub) - 1) = sub

\* String.prototype.slice(0, n)
slice(str, n) == SubSeq(str, 1, IF Len(str) < n THEN Len(str) ELSE n)

RECURSIVE repeat(_, _)
repeat(str, n) == IF n = 0 THEN "" ELSE str \o repeat(str, n - 1)

\* a body longer than the excerpt, its end marked
LongBody == repeat("0123456789", 20) \o "<tail>"

Statuses == {200, 403, 404, 429, 500}

statusText(status) ==
    CASE status = 200 -> "OK"
      [] status = 403 -> "Forbidden"
      [] status = 404 -> "Not Found"
      [] status = 429 -> "Too Many Requests"
      [] status = 500 -> "Internal Server Error"

\* x-ratelimit-reset of the model and the time the server's locale prints
\* for it
ResetHeader == "1700000000"

\* new Date(Number(resetHeader) * 1000).toLocaleTimeString()
toLocaleTimeString(resetHeader) ==
    IF resetHeader = ResetHeader THEN "10:13:20 PM" ELSE "Invalid Date"

\* responses of the upstream: status, x-ratelimit-remaining and
\* x-ratelimit-reset (NULL when absent), body (NULL when it cannot be read)
Responses ==
    [status : Statuses, remaining : {NULL, "0", "1"}, reset : {NULL, ResetHeader},
     body : {NULL, "", "{\"message\":\"boom\"}", LongBody}]

\* Response.ok
ok(r) == r.status >= 200 /\ r.status <= 299

\* mutation: every 403 is a rate limit
isRateLimited_every403(r) == r.status = 429 \/ r.status = 403

isRateLimited(r) ==
    r.status = 429 \/ (r.status = 403 /\ r.remaining = "0")

resetInfo(r) ==
    IF r.reset # NULL /\ r.reset # ""
    THEN " Resets at " \o toLocaleTimeString(r.reset) \o "."
    ELSE ""

\* await res.text().catch(() => "")
bodyText(r) == IF r.body = NULL THEN "" ELSE r.body

Returned == [threw |-> FALSE, message |-> ""]

Thrown(message) == [threw |-> TRUE, message |-> message]

\* githubFetch from the response on
githubFetch(r) ==
    IF ~ok(r)
    THEN IF isRateLimited(r)
         THEN Thrown("RATE_LIMITED: GitHub API rate limit exceeded." \o resetInfo(r))
         ELSE Thrown("GitHub API " \o ToString(r.status) \o ": " \o statusText(r.status)
                     \o " - " \o slice(bodyText(r), ExcerptLength))
    ELSE Returned

InitFetch ==
    /\ pc = "fetching"
    /\ EnrichIdle
    /\ RouteIdle
    /\ prsGiven = <<>>
    /\ sortedPrs = NotReturned
    /\ res \in Responses
    /\ fetched = NotReturned
    /\ PollIdle

GithubFetch ==
    /\ pc = "fetching"
    /\ fetched' = githubFetch(res)
    /\ pc' = "settled"
    /\ UNCHANGED res
    /\ UNCHANGED sortVars
    /\ UNCHANGED pollVars
    /\ UNCHANGED enrichLocals
    /\ UNCHANGED routeVars

NextFetch == GithubFetch

SpecFetch == InitFetch /\ [][NextFetch]_vars

----------------------------------------------------------------------------
(* GET /api/prs, request by request *)

Searches == {"author", "review-requested", "reviewed-by"}

DetailKinds == {"reviews", "requested_reviewers", "pull"}

\* the PRs a run may send per-PR requests for
RunPRIds == PRIds

UserRequest == <<"user", 0>>

SearchRequests == { <<q, 0>> : q \in Searches }

DetailRequests == { <<k, id>> : k \in DetailKinds, id \in RunPRIds }

RequestNames == {UserRequest} \cup SearchRequests \cup DetailRequests

NotIssued == [issued |-> 0, state |-> "none", message |-> "", items |-> <<>>]

\* fetch(url, ...): the request goes out, n times
issue(req, n) ==
    IF n = 0 THEN req ELSE [req EXCEPT !.issued = @ + n, !.state = "inflight"]

\* mutation: a failed request is sent again
rejected_retried(req, message) ==
    [req EXCEPT !.issued = @ + 1, !.state = "inflight"]

\* githubFetch throws: the request's promise rejects
rejected(req, message) ==
    [req EXCEPT !.state = "failed", !.message = message]

\* githubFetch returns the JSON
fulfilled(req, items) ==
    [req EXCEPT !.state = "ok", !.items = items]

\* mutation: the first result is enough
allResolved_first(reqs, names) ==
    \E r \in names : reqs[r].state = "ok"

\* Promise.all(...) over the requests resolves
allResolved(reqs, names) ==
    \A r \in names : reqs[r].state = "ok"

\* mutation: a failed pull detail is put up with
awaited_pullOptional(at, r) ==
    \/ at = "resolving" /\ r = UserRequest
    \/ at = "searching" /\ r \in SearchRequests
    \/ at = "enriching" /\ r \in DetailRequests /\ r[1] # "pull"

\* the Promise.all the handler is suspended at includes the request
awaited(at, r) ==
    \/ at = "resolving" /\ r = UserRequest
    \/ at = "searching" /\ r \in SearchRequests
    \/ at = "enriching" /\ r \in DetailRequests

\* mutation: the pull detail is fetched in both sections
requestsOf_alwaysPull(id, sec) ==
    {<<"reviews", id>>, <<"requested_reviewers", id>>, <<"pull", id>>}

\* the requests enrichPr sends for a PR before it awaits them
requestsOf(id, sec) ==
    {<<"reviews", id>>, <<"requested_reviewers", id>>}
        \cup (IF sec = "my-prs" THEN {<<"pull", id>>} ELSE {})

\* myPrItems.map(enrichPr) and dedupedReviewItems.map(enrichPr): every
\* enrichPr call runs up to its await
issueEnrichment(reqs, my, deduped) ==
    [r \in DOMAIN reqs |->
       issue(reqs[r],
             Cardinality({ i \in DOMAIN my : r \in requestsOf(my[i].id, "my-prs") })
             + Cardinality({ i \in DOMAIN deduped :
                               r \in requestsOf(deduped[i].id, "review-requests") }))]

\* String.prototype.replace(pattern, by) with a string pattern
replace(str, pattern, by) ==
    IF includes(str, pattern)
    THEN LET at(i) == SubSeq(str, i, i + Len(pattern) - 1) = pattern
             first == CHOOSE i \in 1..Len(str) : at(i) /\ \A j \in 1..(i - 1) : ~at(j)
         IN  SubSeq(str, 1, first - 1) \o by
               \o SubSeq(str, first + Len(pattern), Len(str))
    ELSE str

\* mutation: the code read off the status in the message
failure_byStatus(prefix, message) ==
    IF includes(message, "403") \/ includes(message, "429")
    THEN [ErrorResponse(429, "RATE_LIMITED") EXCEPT !.error = message]
    ELSE [ErrorResponse(502, "GITHUB_API_ERROR") EXCEPT !.error = prefix \o message]

\* the catch blocks of steps 3 and 4
failure(prefix, message) ==
    IF startsWith(message, "RATE_LIMITED:")
    THEN [ErrorResponse(429, "RATE_LIMITED")
            EXCEPT !.error = replace(message, "RATE_LIMITED: ", "")]
    ELSE [ErrorResponse(502, "GITHUB_API_ERROR") EXCEPT !.error = prefix \o message]

patFailure ==
    [ErrorResponse(502, "GITHUB_API_ERROR") EXCEPT
       !.error = "Invalid Personal Access Token or GitHub API error. Check your token."]

\* mutation: the failure of the user resolution is classified as the
\* failures of steps 3 and 4 are
failureAt_userClassified(at, message) ==
    CASE at = "resolving" -> failure("GitHub user lookup failed: ", message)
      [] at = "searching" -> failure("GitHub search failed: ", message)
      [] at = "enriching" -> failure("GitHub PR enrichment failed: ", message)

\* the response the handler sends when the rejection of r reaches it
failureAt(at, message) ==
    CASE at = "resolving" -> patFailure
      [] at = "searching" -> failure("GitHub search failed: ", message)
      [] at = "enriching" -> failure("GitHub PR enrichment failed: ", message)

\* mutation: the enriched PRs are collected last first, as a collection in
\* the order of completion gives them when the last PR answers first
dashboard_lastFirst(my, deduped, ids, username) ==
    LET reversed(items) == [i \in DOMAIN items |-> items[Len(items) + 1 - i]]
    IN  [status |-> 200, code |-> "", error |-> "",
         myPrs |-> sortPrs([i \in DOMAIN my |->
                              enrichPr(reversed(my)[i], "my-prs", username, FALSE)]),
         reviewRequests |->
            sortPrs([i \in DOMAIN deduped |->
                       enrichPr(reversed(deduped)[i], "review-requests", username,
                                reversed(deduped)[i].id \in ids)]),
         githubUsername |-> username]

\* the dashboard of step 4
dashboard(my, deduped, ids, username) ==
    [status |-> 200, code |-> "", error |-> "",
     myPrs |-> sortPrs([i \in DOMAIN my |-> enrichPr(my[i], "my-prs", username, FALSE)]),
     reviewRequests |->
        sortPrs([i \in DOMAIN deduped |->
                   enrichPr(deduped[i], "review-requests", username,
                            deduped[i].id \in ids)]),
     githubUsername |-> username]

\* GitHub's data during the run
RunWorld ==
    CHOOSE w \in Worlds : w[3].users = <<>> /\ w[3].teams = <<"platform">>

\* result pages of the searches of the run
RunResults(q) ==
    CASE q = "author" -> {<<>>, <<Item(1)>>}
      [] q = "review-requested" -> {<<>>, <<Item(3)>>}
      [] q = "reviewed-by" -> {<<>>, <<Item(3)>>, <<Item(1), Item(3)>>}

\* failing answers of the upstream: a 403 that reports the quota used up, a
\* 429 without a reset time, a 500
RunFailures ==
    { [status |-> 403, remaining |-> "0", reset |-> ResetHeader, body |-> ""],
      [status |-> 429, remaining |-> NULL, reset |-> NULL, body |-> ""],
      [status |-> 500, remaining |-> "1", reset |-> NULL, body |-> "{\"message\":\"boom\"}"] }

InitRun ==
    /\ pc = "start"
    /\ EnrichIdle
    /\ CallIdle
    /\ upstream = RunWorld
    /\ githubUsername = ""
    /\ myPrItems = <<>>
    /\ reviewRequestItems = <<>>
    /\ reviewedByItems = <<>>
    /\ reviewRequestedIds = {}
    /\ dedupedReviewItems = <<>>
    /\ response = NoResponse
    /\ requests = [r \in RequestNames |-> NotIssued]

runLists == <<myPrItems, reviewRequestItems, reviewedByItems,
              reviewRequestedIds, dedupedReviewItems>>

\* the three searches go out together
startSearches(reqs) ==
    [r \in DOMAIN reqs |-> IF r \in SearchRequests THEN issue(reqs[r], 1) ELSE reqs[r]]

\* steps 1 and 2 of GET up to the first request to GitHub
RunAuthenticate ==
    /\ pc = "start"
    /\ \/ /\ \E refusal \in AuthFailures \ {ErrorResponse(502, "GITHUB_API_ERROR")} :
                response' = refusal
          /\ pc' = "responded"
          /\ UNCHANGED <<githubUsername, requests>>
       \/ /\ githubUsername' = "dave"
          /\ requests' = startSearches(requests)
          /\ pc' = "searching"
          /\ UNCHANGED response
       \/ /\ requests' = [requests EXCEPT ![UserRequest] = issue(@, 1)]
          /\ pc' = "resolving"
          /\ UNCHANGED <<githubUsername, response>>
    /\ UNCHANGED <<upstream, runLists>>
    /\ UNCHANGED enrichLocals
    /\ UNCHANGED callVars

\* PAT mode: GET /user answers
UserResolves ==
    /\ pc = "resolving"
    /\ requests[UserRequest].state = "inflight"
    /\ githubUsername' = "Dave"
    /\ requests' = startSearches([requests EXCEPT ![UserRequest] = fulfilled(@, <<>>)])
    /\ pc' = "searching"
    /\ UNCHANGED <<upstream, runLists, response>>
    /\ UNCHANGED enrichLocals
    /\ UNCHANGED callVars

\* a request in flight fails; the handler, if it awaits it, answers
RequestFails ==
    /\ \E r \in RequestNames, answer \in RunFailures :
          /\ requests[r].state = "inflight"
          /\ LET message == githubFetch(answer).message
             IN  /\ requests' = [requests EXCEPT ![r] = rejected(@, message)]
                 /\ IF awaited(pc, r)
                    THEN /\ response' = failureAt(pc, message)
                         /\ pc' = "responded"
                    ELSE UNCHANGED <<pc, response>>
    /\ UNCHANGED <<upstream, githubUsername, runLists>>
    /\ UNCHANGED enrichLocals
    /\ UNCHANGED callVars

\* a search answers; when it is the last of the three the review lists are
\* merged and every enrichPr call sends its requests
SearchSucceeds ==
    /\ \E r \in SearchRequests :
          /\ requests[r].state = "inflight"
          /\ \E items \in RunResults(r[1]) :
                LET reqs == [requests EXCEPT ![r] = fulfilled(@, items)]
                    my == reqs[<<"author", 0>>].items
                    rr == reqs[<<"review-requested", 0>>].items
                    rb == reqs[<<"reviewed-by", 0>>].items
                    deduped == notAuthoredBy(reviewItemsMap(rr \o rb), githubUsername)
                IN  IF pc = "searching" /\ allResolved(reqs, SearchRequests)
                    THEN /\ myPrItems' = my
                         /\ reviewRequestItems' = rr
                         /\ reviewedByItems' = rb
                         /\ reviewRequestedIds' = ItemIds(rr)
                         /\ dedupedReviewItems' = deduped
                         /\ requests' = issueEnrichment(reqs, my, deduped)
                         /\ IF Len(my) + Len(deduped) = 0
                            THEN /\ response' = dashboard(my, deduped, ItemIds(rr),
                                                          githubUsername)
                                 /\ pc' = "responded"
                            ELSE /\ pc' = "enriching"
                                 /\ UNCHANGED response
                    ELSE /\ requests' = reqs
                         /\ UNCHANGED <<pc, runLists, response>>
    /\ UNCHANGED <<upstream, githubUsername>>
    /\ UNCHANGED enrichLocals
    /\ UNCHANGED callVars

\* a per-PR request answers; when it is the last one the dashboard is sent
DetailSucceeds ==
    /\ \E r \in DetailRequests :
          /\ requests[r].state = "inflight"
          /\ LET reqs == [requests EXCEPT ![r] = fulfilled(@, <<>>)]
                 sent == { d \in DetailRequests : reqs[d].issued > 0 }
             IN  /\ requests' = reqs
                 /\ IF pc = "enriching" /\ allResolved(reqs, sent)
                    THEN /\ response' = dashboard(myPrItems, dedupedReviewItems,
                                                  reviewRequestedIds, githubUsername)
                         /\ pc' = "responded"
                    ELSE UNCHANGED <<pc, response>>
    /\ UNCHANGED <<upstream, githubUsername, runLists>>
    /\ UNCHANGED enrichLocals
    /\ UNCHANGED callVars

NextRun ==
    \/ RunAuthenticate
    \/ UserResolves
    \/ RequestFails
    \/ SearchSucceeds
    \/ DetailSucceeds

SpecRun == InitRun /\ [][NextRun]_vars

\* the searches of a run have answered
searched(my, rr, rb) ==
    [r \in RequestNames |->
        CASE r = <<"author", 0>> -> fulfilled(issue(NotIssued, 1), my)
          [] r = <<"review-requested", 0>> -> fulfilled(issue(NotIssued, 1), rr)
          [] r = <<"reviewed-by", 0>> -> fulfilled(issue(NotIssued, 1), rb)
          [] OTHER -> NotIssued]

\* step 4 of GET has begun: the searches have returned up to MaxItems PRs
\* each and every enrichPr call has sent its requests
InitFanIn ==
    /\ pc = "enriching"
    /\ EnrichIdle
    /\ CallIdle
    /\ upstream = RunWorld
    /\ githubUsername = "dave"
    /\ myPrItems \in SearchResults(AuthoredBy("dave"))
    /\ reviewRequestItems \in SearchResults(PRIds \ AuthoredBy("dave"))
    /\ reviewedByItems \in SearchResults(PRIds \ AuthoredBy("dave"))
    /\ reviewRequestedIds = ItemIds(reviewRequestItems)
    /\ dedupedReviewItems
          = notAuthoredBy(reviewItemsMap(reviewRequestItems \o reviewedByItems), "dave")
    /\ Len(myPrItems) + Len(dedupedReviewItems) > 0
    /\ response = NoResponse
    /\ requests = issueEnrichment(searched(myPrItems, reviewRequestItems,
                                           reviewedByItems),
                                  myPrItems, dedupedReviewItems)

\* every request of the run succeeds, in any order
NextFanIn == DetailSucceeds

SpecFanIn == InitFanIn /\ [][NextFanIn]_vars

----------------------------------------------------------------------------
(* The polling hooks usePolling and useDashboardPolling *)

Hooks == {"usePolling", "useDashboardPolling"}

Intervals == {30000, 60000}

Urls == {"/api/prs?authMethod=oauth", "/api/prs?authMethod=pat"}

\* the options of a render; usePolling has no option enabled and polls
\* as useDashboardPolling does with its default, true
Props ==
    [hook : {"usePolling"}, url : Urls, intervalMs : Intervals, enabled : {TRUE}]
        \cup [hook : {"useDashboardPolling"}, url : {"fetch_dashboard"},
              intervalMs : Intervals, enabled : BOOLEAN]

\* intervalRef.current without a timer: null, which is no timer's id
NoTimer == 0

\* the hook as one value
Hook ==
    [props |-> hookProps, state |-> hookState, refs |-> hookRefs, browser |-> browser]

\* useState(null), useState(null), useState(true), useState(false),
\* useState(null); useRef(null), useRef(true); no timer and no fetch yet
Rendered(props, hidden) ==
    [props |-> props,
     state |-> [data |-> NULL, error |-> NULL, isLoading |-> TRUE,
                isRefreshing |-> FALSE, lastFetchedAt |-> NULL],
     refs |-> [intervalRef |-> NoTimer, isFirstFetch |-> TRUE],
     browser |-> [hidden |-> hidden, timers |-> {}, made |-> 0,
                  started |-> 0, inFlight |-> {}, completed |-> <<>>]]

\* fetchData up to its await: the flag of the phase is set and the fetch
\* is on its way; fetches are numbered in the order of their start
fetchData(c) ==
    LET f == c.browser.started + 1
    IN  [c EXCEPT
            !.state = IF c.refs.isFirstFetch
                      THEN [@ EXCEPT !.isLoading = TRUE]
                      ELSE [@ EXCEPT !.isRefreshing = TRUE],
            !.browser = [@ EXCEPT !.started = f, !.inFlight = @ \cup {f}]]

\* clearInterval(intervalRef.current)
clearInterval(c) == {t \in c.browser.timers : t.id # c.refs.intervalRef}

\* mutation: the previous timer is left running
startPolling_noClear(c) ==
    LET id == c.browser.made + 1
    IN  [c EXCEPT
            !.browser = [@ EXCEPT
                !.timers = @ \cup {[id |-> id, intervalMs |-> c.props.intervalMs]},
                !.made = id],
            !.refs = [@ EXCEPT !.intervalRef = id]]

\* startPolling: the timer of intervalRef is cleared, a new one is set
startPolling(c) ==
    LET id == c.browser.made + 1
    IN  [c EXCEPT
            !.browser = [@ EXCEPT
                !.timers = clearInterval(c)
                              \cup {[id |-> id, intervalMs |-> c.props.intervalMs]},
                !.made = id],
            !.refs = [@ EXCEPT !.intervalRef = id]]

stopPolling(c) ==
    IF c.refs.intervalRef # NoTimer
    THEN [c EXCEPT !.browser = [@ EXCEPT !.timers = clearInterval(c)],
                   !.refs = [@ EXCEPT !.intervalRef = NoTimer]]
    ELSE c

\* whether the hook starts its timer: useDashboardPolling if enabled,
\* usePolling always
polls(c) == c.props.hook = "usePolling" \/ c.props.enabled

\* refresh: a fetch, and the interval starts anew
refresh(c) ==
    LET d == fetchData(c)
    IN  IF polls(c) THEN startPolling(d) ELSE d

\* usePolling's effect on [url]
resetEffect(c) ==
    IF c.props.hook = "usePolling"
    THEN [c EXCEPT !.refs = [@ EXCEPT !.isFirstFetch = TRUE],
                   !.state = [@ EXCEPT !.data = NULL, !.error = NULL,
                                       !.isLoading = TRUE]]
    ELSE c

\* the effect "Initial fetch + start polling"; its cleanup is stopPolling
pollingEffect(c) ==
    LET d == fetchData(c)
    IN  IF polls(c) THEN startPolling(d) ELSE d

\* the effects of a render whose dependencies changed: the cleanup of
\* the previous render, then the effects in the order of their declaration
rerender(c, props, urlChanged) ==
    LET cleaned == [stopPolling(c) EXCEPT !.props = props]
    IN  pollingEffect(IF urlChanged THEN resetEffect(cleaned) ELSE cleaned)

\* the first render and its effects
mount(props, hidden) == pollingEffect(resetEffect(Rendered(props, hidden)))

\* the listener of visibilitychange is registered: by usePolling always,
\* by useDashboardPolling if enabled
listens(c) == polls(c)

handleVisibilityChange(c) ==
    IF c.browser.hidden THEN stopPolling(c) ELSE startPolling(fetchData(c))

\* what a fetch brings: each fetch its own result or message
resultOf(f) == "result of fetch " \o ToString(f)

\* new Date() when a fetch has completed
timeOf(f) == "completion of fetch " \o ToString(f)

Failures == {"response", "thrown"}

\* json.error ?? "An error occurred" of an error response, the message of
\* the catch of usePolling, String(err) in useDashboardPolling
messageOf(c, f, kind) ==
    IF c.props.hook = "usePolling"
    THEN IF kind = "response" THEN "error of fetch " \o ToString(f)
         ELSE "Network error. Please check your connection."
    ELSE "error of fetch " \o ToString(f)

\* finally: both flags fall, the first fetch is over
settled(c, f, success) ==
    [c EXCEPT !.state = [@ EXCEPT !.isLoading = FALSE, !.isRefreshing = FALSE],
              !.refs = [@ EXCEPT !.isFirstFetch = FALSE],
              !.browser = [@ EXCEPT !.inFlight = @ \ {f},
                                    !.completed = Append(@, [fetch |-> f, ok |-> success])]]

\* mutation: the result of a fetch is dropped when a fetch started after
\* it has already completed
succeeded_newestOnly(c, f) ==
    IF \E i \in DOMAIN c.browser.completed : c.browser.completed[i].fetch > f
    THEN settled(c, f, TRUE)
    ELSE settled([c EXCEPT !.state = [@ EXCEPT !.data = resultOf(f), !.error = NULL,
                                               !.lastFetchedAt = timeOf(f)]], f, TRUE)

\* the fetch resolved with a success
succeeded(c, f) ==
    settled([c EXCEPT !.state = [@ EXCEPT !.data = resultOf(f), !.error = NULL,
                                          !.lastFetchedAt = timeOf(f)]], f, TRUE)

\* mutation: a failure always clears the data
dataAfterFailure_reset(c) == NULL

\* "Keep stale data visible on subsequent errors"
dataAfterFailure(c) == IF c.refs.isFirstFetch THEN NULL ELSE c.state.data

\* the fetch ended with an error response (usePolling) or threw
failed(c, f, kind) ==
    settled([c EXCEPT !.state = [@ EXCEPT
                !.error = messageOf(c, f, kind),
                !.data = dataAfterFailure(c),
                !.lastFetchedAt = IF c.props.hook = "usePolling" /\ kind = "response"
                                  THEN timeOf(f) ELSE @]], f, FALSE)

\* the hook's variables take the value
Becomes(c) ==
    /\ hookProps' = c.props
    /\ hookState' = c.state
    /\ hookRefs' = c.refs
    /\ browser' = c.browser
    /\ UNCHANGED <<enrichVars, routeVars, sortVars, fetchVars>>

CanFetch == browser.started < MaxFetches

CanStart == browser.made < MaxTimers

\* a hook after its first render, in a visible or a hidden document
InitPoll ==
    /\ pc = "mounted"
    /\ EnrichIdle
    /\ RouteIdle
    /\ prsGiven = <<>>
    /\ sortedPrs = NotReturned
    /\ res = NotReturned
    /\ fetched = NotReturned
    /\ \E props \in Props, hidden \in BOOLEAN :
          LET c == mount(props, hidden)
          IN  /\ hookProps = c.props
              /\ hookState = c.state
              /\ hookRefs = c.refs
              /\ browser = c.browser

\* the user asks for a refresh
Refresh ==
    /\ CanFetch /\ CanStart
    /\ Becomes(refresh(Hook))

\* the live timer fires
Tick ==
    /\ CanFetch
    /\ browser.timers # {}
    /\ Becomes(fetchData(Hook))

\* the document is hidden or shown
VisibilityChange ==
    /\ CanFetch /\ CanStart
    /\ LET c == [Hook EXCEPT !.browser = [@ EXCEPT !.hidden = ~@]]
       IN  Becomes(IF listens(c) THEN handleVisibilityChange(c) ELSE c)

\* the caller renders the hook with another interval
IntervalChange ==
    /\ CanFetch /\ CanStart
    /\ \E ms \in Intervals \ {hookProps.intervalMs} :
          Becomes(rerender(Hook, [hookProps EXCEPT !.intervalMs = ms], FALSE))

\* the caller enables or disables useDashboardPolling
EnabledChange ==
    /\ CanFetch /\ CanStart
    /\ hookProps.hook = "useDashboardPolling"
    /\ Becomes(rerender(Hook, [hookProps EXCEPT !.enabled = ~@], FALSE))

\* the caller renders usePolling with another URL
UrlChange ==
    /\ CanFetch /\ CanStart
    /\ hookProps.hook = "usePolling"
    /\ \E url \in Urls \ {hookProps.url} :
          Becomes(rerender(Hook, [hookProps EXCEPT !.url = url], TRUE))

\* a fetch in flight resolves with a success
FetchSucceeds ==
    \E f \in browser.inFlight : Becomes(succeeded(Hook, f))

\* a fetch in flight fails; invoke of useDashboardPolling only throws
FetchFails ==
    \E f \in browser.inFlight :
        \E kind \in (IF hookProps.hook = "usePolling" THEN Failures ELSE {"thrown"}) :
            Becomes(failed(Hook, f, kind))

NextPoll ==
    /\ pc' = pc
    /\ \/ Refresh
       \/ Tick
       \/ VisibilityChange
       \/ IntervalChange
       \/ EnabledChange
       \/ UrlChange
       \/ FetchSucceeds
       \/ FetchFails

SpecPoll == InitPoll /\ [][NextPoll]_vars

\* a hook after its first render in a visible document
InitPollShown == InitPoll /\ ~browser.hidden

SpecPollShown == InitPollShown /\ [][NextPoll]_vars

----------------------------------------------------------------------------
(* Properties of enrichPr on one PR *)

MyPrDone == pc = "enriched" /\ section = "my-prs"

ReviewReqDone == pc = "enriched" /\ section = "review-requests"

\* indices of the submitted reviews that come from someone other than the
\* PR author
OtherSubmitted ==
    {i \in DOMAIN reviews :
        /\ reviews[i].state \in {"APPROVED", "CHANGES_REQUESTED", "COMMENTED", "DISMISSED"}
        /\ ToLower(reviews[i].login) # ToLower(authorLogin)}

\* the login is in the individually requested reviewers, whatever the case
IsRequested(login) ==
    \E k \in DOMAIN requestedReviewers :
        ToLower(requestedReviewers[k]) = ToLower(login)

\* review i requests changes and its reviewer has since only commented or
\* requested changes again
EffectiveChangesRequested(i) ==
    /\ i \in OtherSubmitted
    /\ reviews[i].state = "CHANGES_REQUESTED"
    /\ \A j \in OtherSubmitted :
          (j > i /\ ToLower(reviews[j].login) = ToLower(reviews[i].login))
             => reviews[j].state \in {"COMMENTED", "CHANGES_REQUESTED"}

Decided(n, label, verdict) ==
    /\ turnStatus = verdict
    /\ Len(debugInfo.checks) = n
    /\ debugInfo.checks[n].label = label
    /\ debugInfo.checks[n].result = verdict
    /\ debugInfo.decidingCheck = label

\* C1: an authored PR without a submitted review from anyone but its author
\* is their-turn; the trace holds the one check "No reviews submitted yet",
\* which decides, whatever the requested reviewers and the merge state are.
C1_NoReviewsTheirTurn ==
    (MyPrDone /\ OtherSubmitted = {})
        => Decided(1, "No reviews submitted yet", "their-turn")

C1_Witness ==
    /\ MyPrDone
    /\ OtherSubmitted = {}
    /\ reviews = <<[login |-> "Dave", state |-> "CHANGES_REQUESTED"],
                   [login |-> "alice", state |-> "PENDING"]>>
    /\ requestedReviewers = <<"Alice">>
    /\ mergeableState = "clean"
    /\ turnStatus = "their-turn"

C3_ChangesRequestedMyTurn ==
    /\ (/\ MyPrDone
        /\ \E i \in OtherSubmitted :
              EffectiveChangesRequested(i) /\ ~IsRequested(reviews[i].login))
          => Decided(3, "Changes requested", "my-turn")
    /\ (/\ MyPrDone
        /\ reviews = <<[login |-> "alice", state |-> "APPROVED"],
                       [login |-> "bob", state |-> "CHANGES_REQUESTED"]>>
        /\ requestedReviewers = <<>>
        /\ requestedTeams = <<>>
        /\ mergeableState = "dirty")
          => /\ Decided(3, "Changes requested", "my-turn")
             /\ reviewSummary = "1 approved, 1 changes requested"

C3_Witness ==
    /\ MyPrDone
    /\ reviews = <<[login |-> "alice", state |-> "APPROVED"],
                   [login |-> "bob", state |-> "CHANGES_REQUESTED"]>>
    /\ requestedReviewers = <<>>
    /\ mergeableState = "dirty"
    /\ turnStatus = "my-turn"
    /\ reviewSummary = "1 approved, 1 changes requested"

\* the reviews are those of one reviewer, alice, in the given states
AliceReviews(states) ==
    /\ Len(reviews) = Len(states)
    /\ \A i \in DOMAIN reviews :
          reviews[i] = [login |-> "alice", state |-> states[i]]

\* both folds hold the state for alice
AliceState(state) ==
    /\ "alice" \in DOMAIN summaryLatestByUser
    /\ summaryLatestByUser["alice"] = state
    /\ Len(debugInfo.checks) >= 3
          => /\ "alice" \in DOMAIN turnLatestByUser
             /\ turnLatestByUser["alice"] = state

\* C4: in both folds an APPROVED or CHANGES_REQUESTED review stays the
\* reviewer's effective state however many COMMENTED reviews follow it;
\* [APPROVED, COMMENTED] gives APPROVED, [CHANGES_REQUESTED, COMMENTED] gives
\* CHANGES_REQUESTED and [CHANGES_REQUESTED, APPROVED] gives APPROVED.
C4_CommentedKeepsDecision ==
    MyPrDone =>
      /\ \A i \in DOMAIN reviews :
            (/\ reviews[i].state \in {"APPROVED", "CHANGES_REQUESTED"}
             /\ \A j \in DOMAIN reviews :
                   (j > i /\ reviews[j].login = reviews[i].login)
                      => reviews[j].state = "COMMENTED")
               => /\ reviews[i].login \in DOMAIN summaryLatestByUser
                  /\ summaryLatestByUser[reviews[i].login] = reviews[i].state
      /\ Len(debugInfo.checks) >= 3 =>
           \A i \in OtherSubmitted :
              (/\ reviews[i].state \in {"APPROVED", "CHANGES_REQUESTED"}
               /\ \A j \in DOMAIN reviews :
                     (j > i /\ ToLower(reviews[j].login) = ToLower(reviews[i].login))
                        => reviews[j].state = "COMMENTED")
                 => /\ ToLower(reviews[i].login) \in DOMAIN turnLatestByUser
                    /\ turnLatestByUser[ToLower(reviews[i].login)] = reviews[i].state
      /\ AliceReviews(<<"APPROVED", "COMMENTED">>) => AliceState("APPROVED")
      /\ AliceReviews(<<"CHANGES_REQUESTED", "COMMENTED">>)
            => AliceState("CHANGES_REQUESTED")
      /\ AliceReviews(<<"CHANGES_REQUESTED", "APPROVED">>) => AliceState("APPROVED")

C4_Witness ==
    /\ MyPrDone
    /\ AliceReviews(<<"APPROVED", "COMMENTED", "COMMENTED">>)
    /\ requestedReviewers = <<>>
    /\ Len(debugInfo.checks) = 4
    /\ turnLatestByUser["alice"] = "APPROVED"
    /\ summaryLatestByUser["alice"] = "APPROVED"
    /\ reviewSummary = "1 approved"

\* the verdict the fourth step owes to a merge state
MergeVerdict(ms) ==
    CASE ms = "clean" -> "my-turn"
      [] ms = "blocked" -> "their-turn"
      [] ms = "dirty" -> "my-turn"
      [] ms = "unstable" -> "my-turn"
      [] ms = "unknown" -> "my-turn"
      [] ms = "behind" -> "my-turn"
      [] ms = NULL -> "my-turn"
      [] ms = UNDEFINED -> "my-turn"

MergeLabel(ms) ==
    "Mergeable state: " \o (IF ms = NULL \/ ms = UNDEFINED THEN "null" ELSE ms)

\* the first three checks defer
FirstThreeDefer ==
    /\ \E i \in OtherSubmitted : ~IsRequested(reviews[i].login)
    /\ \A i \in OtherSubmitted : ~EffectiveChangesRequested(i)

C6_IndividuallyRequestedMyTurn ==
    (ReviewReqDone /\ IsRequested(myUsername))
        => Decided(1, "My review requested", "my-turn")

C6_Witness ==
    /\ ReviewReqDone
    /\ requestedReviewers = <<"Alice", "bob">>
    /\ myUsername = "Bob"
    /\ requestedTeams = <<>>
    /\ isReviewRequested = FALSE
    /\ Len(reviews) > 0
    /\ turnStatus = "my-turn"

----------------------------------------------------------------------------
(* Properties of GET /api/prs *)

\* the run has returned a dashboard
RouteOk == pc = "responded" /\ response.status = 200

\* GitHub lists the viewer among the PR's individually requested users
ViewerRequested(id) ==
    \E k \in DOMAIN upstream[id].users :
        ToLower(upstream[id].users[k]) = ToLower(githubUsername)

\* number of entries of the list that carry the id
Occurrences(list, id) == Cardinality({ i \in DOMAIN list : list[i].id = id })

\* C7: a PR under review whose individually requested users do not include
\* the viewer is my-turn exactly when the review-requested search of the run
\* returned it and it has a pending team request, and their-turn otherwise;
\* being returned by the reviewed-by search as well changes nothing, and the
\* deciding check is "My review requested (via team)".
C7_TeamRequestNeedsDiscovery ==
    RouteOk =>
      \A i \in DOMAIN response.reviewRequests :
         LET pr == response.reviewRequests[i]
             discovered == \E k \in DOMAIN reviewRequestItems :
                              reviewRequestItems[k].id = pr.id
             viaTeam == discovered /\ Len(upstream[pr.id].teams) >= 1
         IN  ~ViewerRequested(pr.id) =>
               /\ pr.turnStatus = IF viaTeam THEN "my-turn" ELSE "their-turn"
               /\ Len(pr.turnDebugInfo.checks) = 2
               /\ pr.turnDebugInfo.checks[2].label = "My review requested (via team)"
               /\ pr.turnDebugInfo.checks[2].result = pr.turnStatus
               /\ pr.turnDebugInfo.decidingCheck = "My review requested (via team)"

C7_Witness ==
    /\ RouteOk
    /\ upstream[3].users = <<>>
    /\ upstream[3].teams = <<"platform">>
    /\ reviewRequestItems = <<Item(3)>>
    /\ reviewedByItems = <<Item(3), Item(4)>>
    /\ Len(response.reviewRequests) = 2
    /\ response.reviewRequests[1].id = 3
    /\ response.reviewRequests[1].turnStatus = "my-turn"
    /\ response.reviewRequests[2].id = 4
    /\ response.reviewRequests[2].turnStatus = "their-turn"

\* C8 as stated: the merged review set holds every id at most once, holds a
\* PR of both lists exactly once, and holds every PR of either list whose
\* author is not the viewer.
C8_AsStated ==
    pc \in {"enriching", "responded"} =>
      /\ \A id \in PRIds : Occurrences(dedupedReviewItems, id) <= 1
      /\ \A id \in ItemIds(reviewRequestItems) \cap ItemIds(reviewedByItems) :
            Occurrences(dedupedReviewItems, id) = 1
      /\ \A id \in ItemIds(reviewRequestItems) \cup ItemIds(reviewedByItems) :
            ToLower(upstream[id].login) # ToLower(githubUsername)
               => Occurrences(dedupedReviewItems, id) >= 1

\* C8: the merged review set holds every id at most once, holds a PR of both
\* lists exactly once when its author is not the viewer and not at all when
\* its author is the viewer, and holds every PR of either list whose author
\* is not the viewer.
C8_MergedOnce ==
    pc \in {"enriching", "responded"} =>
      /\ \A id \in PRIds : Occurrences(dedupedReviewItems, id) <= 1
      /\ \A id \in ItemIds(reviewRequestItems) \cap ItemIds(reviewedByItems) :
            Occurrences(dedupedReviewItems, id) =
               IF ToLower(upstream[id].login) # ToLower(githubUsername) THEN 1 ELSE 0
      /\ \A id \in ItemIds(reviewRequestItems) \cup ItemIds(reviewedByItems) :
            ToLower(upstream[id].login) # ToLower(githubUsername)
               => Occurrences(dedupedReviewItems, id) >= 1

C8_Witness ==
    /\ RouteOk
    /\ reviewRequestItems = <<Item(3), Item(1)>>
    /\ reviewedByItems = <<Item(1), Item(3)>>
    /\ dedupedReviewItems = <<Item(3)>>
    /\ Len(response.reviewRequests) = 1

\* C9: no PR of a dashboard's reviewRequests is authored by the viewer, the
\* logins compared without regard to case.
C9_NoOwnPrUnderReview ==
    RouteOk =>
      \A i \in DOMAIN response.reviewRequests :
         ToLower(response.reviewRequests[i].author) # ToLower(response.githubUsername)

C9_Witness ==
    /\ RouteOk
    /\ githubUsername = "dave"
    /\ reviewRequestItems = <<Item(1), Item(4)>>
    /\ upstream[1].login = "Dave"
    /\ Len(response.reviewRequests) = 1
    /\ response.reviewRequests[1].author = "bob"

\* C10: no PR id is in both myPrs and reviewRequests of a dashboard.
C10_CategoriesDisjoint ==
    RouteOk =>
      \A i \in DOMAIN response.myPrs, j \in DOMAIN response.reviewRequests :
         response.myPrs[i].id # response.reviewRequests[j].id

C10_Witness ==
    /\ RouteOk
    /\ myPrItems = <<Item(2), Item(1)>>
    /\ reviewedByItems = <<Item(2), Item(3)>>
    /\ Len(response.myPrs) = 2
    /\ Len(response.reviewRequests) = 1
    /\ response.reviewRequests[1].id = 3

----------------------------------------------------------------------------
(* Properties of sortPrs *)

SortDone == pc = "returned"

\* C11: sortPrs returns a permutation of the array it is given, with no
\* their-turn PR before a my-turn PR, updatedAt non-increasing among PRs of
\* one verdict, and PRs equal on both keys in their input order; verdicts
\* [their-turn, my-turn, my-turn] give the two my-turn PRs first, the newer
\* one leading, then the their-turn PR.
C11_SortedStablePermutation ==
    SortDone =>
      /\ Len(sortedPrs) = Len(prsGiven)
      /\ \A i \in DOMAIN prsGiven : \E k \in DOMAIN sortedPrs : sortedPrs[k] = prsGiven[i]
      /\ \A k, l \in DOMAIN sortedPrs :
            k < l =>
              /\ ~(sortedPrs[k].turnStatus = "their-turn"
                     /\ sortedPrs[l].turnStatus = "my-turn")
              /\ sortedPrs[k].turnStatus = sortedPrs[l].turnStatus
                    => sortedPrs[k].updatedAt >= sortedPrs[l].updatedAt
              /\ (/\ sortedPrs[k].turnStatus = sortedPrs[l].turnStatus
                  /\ sortedPrs[k].updatedAt = sortedPrs[l].updatedAt)
                    => sortedPrs[k].id < sortedPrs[l].id
      /\ (/\ Len(prsGiven) = 3
          /\ prsGiven[1].turnStatus = "their-turn"
          /\ prsGiven[2].turnStatus = "my-turn"
          /\ prsGiven[3].turnStatus = "my-turn")
            => /\ sortedPrs[3] = prsGiven[1]
               /\ sortedPrs[1].turnStatus = "my-turn"
               /\ sortedPrs[2].turnStatus = "my-turn"
               /\ sortedPrs[1].updatedAt >= sortedPrs[2].updatedAt

C11_Witness ==
    /\ SortDone
    /\ Len(prsGiven) = 3
    /\ prsGiven[1].turnStatus = "their-turn" /\ prsGiven[1].updatedAt = 3
    /\ prsGiven[2].turnStatus = "my-turn" /\ prsGiven[2].updatedAt = 1
    /\ prsGiven[3].turnStatus = "my-turn" /\ prsGiven[3].updatedAt = 2
    /\ sortedPrs = <<prsGiven[3], prsGiven[2], prsGiven[1]>>

----------------------------------------------------------------------------
(* Properties of githubFetch *)

FetchDone == pc = "settled"

----------------------------------------------------------------------------
(* Properties of GET /api/prs, request by request *)

\* the run has answered with an error
RunFailed == pc = "responded" /\ response.status \in {400, 401, 429, 502}

\* the per-PR requests of the given PRs
DetailsOf(ids) == {d \in DetailRequests : d[2] \in ids}

RunSucceeded == pc = "responded" /\ response.status = 200

Failed(r) == requests[r].state = "failed"

Fulfilled(r) == requests[r].issued = 1 /\ requests[r].state = "ok"

\* C12: once one of the three searches has failed the run has answered with
\* an error and no reviews, requested-reviewers or pull-detail request is
\* ever sent, whatever the other two searches return.
C12_SearchFailureStopsRun ==
    (\E r \in SearchRequests : Failed(r))
        => /\ RunFailed
           /\ response.status \in {429, 502}
           /\ \A d \in DetailRequests : requests[d].issued = 0

C12_Witness ==
    /\ Failed(<<"reviewed-by", 0>>)
    /\ requests[<<"author", 0>>].state = "ok"
    /\ requests[<<"author", 0>>].items = <<Item(1)>>
    /\ requests[<<"review-requested", 0>>].state = "ok"
    /\ requests[<<"review-requested", 0>>].items = <<Item(3)>>
    /\ RunFailed
    /\ \A d \in DetailRequests : requests[d].issued = 0

\* C13: a run answers with an error or with a dashboard that holds one
\* enriched PR for every PR of the author search and one for every PR of
\* the merged review set; the dashboard is sent only when every reviews,
\* requested-reviewers and pull-detail request of both categories has
\* succeeded, and one failed request of one PR makes the answer an error.
C13_NoPartialDashboard ==
    /\ pc = "responded" => RunFailed \/ RunSucceeded
    /\ RunSucceeded =>
         /\ Len(response.myPrs) = Len(myPrItems)
         /\ \A i \in DOMAIN myPrItems :
               /\ Occurrences(response.myPrs, myPrItems[i].id) = 1
               /\ Fulfilled(<<"reviews", myPrItems[i].id>>)
               /\ Fulfilled(<<"requested_reviewers", myPrItems[i].id>>)
               /\ Fulfilled(<<"pull", myPrItems[i].id>>)
         /\ Len(response.reviewRequests) = Len(dedupedReviewItems)
         /\ \A i \in DOMAIN dedupedReviewItems :
               /\ Occurrences(response.reviewRequests, dedupedReviewItems[i].id) = 1
               /\ Fulfilled(<<"reviews", dedupedReviewItems[i].id>>)
               /\ Fulfilled(<<"requested_reviewers", dedupedReviewItems[i].id>>)
         /\ \A r \in RequestNames : requests[r].state \in {"none", "ok"}
    /\ (\E d \in DetailRequests : Failed(d)) => RunFailed

C13_Witness ==
    /\ RunSucceeded
    /\ myPrItems = <<Item(1)>>
    /\ reviewedByItems = <<Item(1), Item(3)>>
    /\ Len(response.myPrs) = 1
    /\ Len(response.reviewRequests) = 1
    /\ \A d \in DetailsOf({1, 3}) \ {<<"pull", 3>>} : Fulfilled(d)

\* what githubFetch throws on the upstream's 403 with no quota left and the
\* reset time of the model
QuotaMessage ==
    "RATE_LIMITED: GitHub API rate limit exceeded. Resets at 10:13:20 PM."

RateLimitedResponse == response.status = 429 /\ response.code = "RATE_LIMITED"

\* C15 as stated: whenever the upstream has answered a request of the run
\* with 403, no quota left and a reset time, the run's error response is
\* RATE_LIMITED (429) and its message holds the reset time; an error
\* response after a failed request is RATE_LIMITED only after a rate-limit
\* failure and is GITHUB_API_ERROR (502) otherwise.
C15_AsStated ==
    /\ (\E r \in RequestNames : Failed(r) /\ requests[r].message = QuotaMessage)
          => /\ RateLimitedResponse
             /\ includes(response.error, "10:13:20 PM")
    /\ (RunFailed /\ \E r \in RequestNames : Failed(r))
          => \/ /\ RateLimitedResponse
                /\ \E r \in RequestNames :
                      Failed(r) /\ startsWith(requests[r].message, "RATE_LIMITED:")
             \/ response.status = 502 /\ response.code = "GITHUB_API_ERROR"

\* C15: when the failure that ends the search step or the enrichment step of
\* a run is the upstream's 403 with no quota left and a reset time, the
\* error response is RATE_LIMITED (429) and its message holds the reset
\* time; the error response of such a step is RATE_LIMITED exactly when the
\* failure that ended it was a rate-limit failure and GITHUB_API_ERROR (502)
\* otherwise.
C15_AbortingRateLimitReported ==
    [][ (pc \in {"searching", "enriching"} /\ pc' = "responded"
            /\ response'.status # 200)
          => \E r \in RequestNames :
                /\ requests[r].state = "inflight"
                /\ requests'[r].state = "failed"
                /\ pc = "searching" => r \in SearchRequests
                /\ pc = "enriching" => r \in DetailRequests
                /\ LET m == requests'[r].message
                   IN  /\ m = QuotaMessage
                            => /\ response'.status = 429
                               /\ response'.code = "RATE_LIMITED"
                               /\ includes(response'.error, "10:13:20 PM")
                       /\ startsWith(m, "RATE_LIMITED:")
                            => /\ response'.status = 429
                               /\ response'.code = "RATE_LIMITED"
                       /\ ~startsWith(m, "RATE_LIMITED:")
                            => /\ response'.status = 502
                               /\ response'.code = "GITHUB_API_ERROR" ]_vars

C15_Witness ==
    /\ RunFailed
    /\ RateLimitedResponse
    /\ response.error = "GitHub API rate limit exceeded. Resets at 10:13:20 PM."
    /\ Failed(<<"pull", 1>>)
    /\ requests[<<"pull", 1>>].message = QuotaMessage
    /\ Fulfilled(<<"reviews", 1>>)

\* C16: in one run every upstream request is sent at most once: the user
\* request of PAT mode, the three searches and, per PR, the reviews and the
\* requested-reviewers request and, for an authored PR, the pull detail; a
\* request that has failed is not sent again and the run has answered with an
\* error.
C16_NoRetries ==
    /\ \A r \in RequestNames : requests[r].issued <= 1
    /\ \A r \in RequestNames :
          Failed(r) => /\ requests[r].issued = 1
                       /\ RunFailed
                       /\ response.status \in {429, 502}
    /\ \A id \in RunPRIds :
          requests[<<"pull", id>>].issued = 1
             => \E i \in DOMAIN myPrItems : myPrItems[i].id = id

C16_Witness ==
    /\ RunFailed
    /\ Failed(<<"reviews", 3>>)
    /\ requests[<<"reviews", 3>>].issued = 1
    /\ reviewRequestItems = <<Item(3)>>
    /\ reviewedByItems = <<Item(1), Item(3)>>
    /\ \A r \in RequestNames : requests[r].state # "inflight"
    /\ \A r \in SearchRequests : requests[r].issued = 1

\* C20: enrichPr sends the pull-detail request exactly for a PR of section
\* "my-prs": an authored PR has its three requests sent, a PR under review
\* its reviews and requested-reviewers requests only, and the requests of a
\* PR go out together, before any of them is awaited; the merge state of a
\* PR under review is null whatever GitHub holds for it.
C20_PullDetailForMyPrsOnly ==
    \A id \in RunPRIds :
       LET sent(k) == requests[<<k, id>>].issued
           mine == \E i \in DOMAIN myPrItems : myPrItems[i].id = id
           underReview == \E i \in DOMAIN dedupedReviewItems :
                             dedupedReviewItems[i].id = id
       IN  /\ mine => sent("reviews") = 1 /\ sent("requested_reviewers") = 1
                        /\ sent("pull") = 1
           /\ underReview => sent("reviews") = 1 /\ sent("requested_reviewers") = 1
                               /\ sent("pull") = 0
                               /\ mergeableStateIn(id, "review-requests") = NULL
           /\ ~mine /\ ~underReview
                 => sent("reviews") = 0 /\ sent("requested_reviewers") = 0
                      /\ sent("pull") = 0
           /\ sent("pull") = 1 <=> mine

C20_Witness ==
    /\ pc = "enriching"
    /\ myPrItems = <<Item(1)>>
    /\ dedupedReviewItems = <<Item(3)>>
    /\ \A d \in DetailsOf({1, 3}) \ {<<"pull", 3>>} :
          requests[d].issued = 1 /\ requests[d].state = "inflight"
    /\ requests[<<"pull", 3>>].issued = 0
    /\ upstream[3].mergeable_state = "blocked"

----------------------------------------------------------------------------
(* Properties of buildReviewSummary *)

\* reviewers whose effective state in the summary is the given one
Reviewers(state) ==
    {u \in DOMAIN summaryLatestByUser : summaryLatestByUser[u] = state}

\* "n text", or nothing when n is zero
Listed(n, text) == IF n > 0 THEN ToString(n) \o text ELSE ""

\* what the summary says of the pending requests
PendingText ==
    LET k == Len(requestedTeams)
        n == Len(requestedReviewers) + k
    IN  Listed(n, " pending")
            \o (IF n > 0 /\ k = 1 THEN " (1 team)"
                ELSE IF n > 0 /\ k > 1 THEN " (" \o ToString(k) \o " teams)"
                ELSE "")

\* the non-empty texts of a list, in its order, separated by ", "
RECURSIVE Listing(_)
Listing(texts) ==
    IF texts = <<>> THEN ""
    ELSE LET rest == Listing(Tail(texts))
         IN  IF Head(texts) = "" THEN rest
             ELSE IF rest = "" THEN Head(texts)
             ELSE Head(texts) \o ", " \o rest

\* C17: the summary of a PR lists, in this order and only when not zero,
\* the reviewers whose effective state is APPROVED, CHANGES_REQUESTED and
\* COMMENTED, then the pending requests (users and teams) with the number
\* of teams in brackets; without a submitted review and without a pending
\* request it is "No reviews".
C17_SummaryFormat ==
    ReviewReqDone =>
        LET listing == Listing(<<
                Listed(Cardinality(Reviewers("APPROVED")), " approved"),
                Listed(Cardinality(Reviewers("CHANGES_REQUESTED")), " changes requested"),
                Listed(Cardinality(Reviewers("COMMENTED")), " commented"),
                PendingText>>)
            noneSubmitted == \A i \in 1..Len(reviews) : reviews[i].state = "PENDING"
            nonePending == requestedReviewers = <<>> /\ requestedTeams = <<>>
        IN  /\ listing # "" => reviewSummary = listing
            /\ listing = "" => reviewSummary = "No reviews"
            /\ noneSubmitted /\ nonePending => reviewSummary = "No reviews"

\* two reviewers with different effective states, a pending user and one
\* pending team
C17_Witness ==
    /\ ReviewReqDone
    /\ Reviewers("APPROVED") # {}
    /\ Reviewers("CHANGES_REQUESTED") # {}
    /\ Len(requestedReviewers) = 1
    /\ Len(requestedTeams) = 1
    /\ reviewSummary = "1 approved, 1 changes requested, 2 pending (1 team)"

----------------------------------------------------------------------------
(* Properties of the traces *)

EnrichDone == pc = "enriched"

\* the labels of the checks of a section, in the order of their evaluation;
\* the label of the fourth check of an authored PR ends with the merge state
InOrder(checks, sec) ==
    \A i \in 1..Len(checks) :
        IF sec = "my-prs"
        THEN CASE i = 1 -> checks[i].label = "No reviews submitted yet"
               [] i = 2 -> checks[i].label = "All submitters re-requested"
               [] i = 3 -> checks[i].label = "Changes requested"
               [] i = 4 -> startsWith(checks[i].label, "Mergeable state: ")
               [] OTHER -> FALSE
        ELSE CASE i = 1 -> checks[i].label = "My review requested"
               [] i = 2 -> checks[i].label = "My review requested (via team)"
               [] OTHER -> FALSE

\* C18: the trace of a verdict is not empty, its checks are in the order
\* of their evaluation, the deciding check is the last one and no other,
\* every check before it was skipped and its result is the verdict.
C18_TraceWellFormed ==
    EnrichDone =>
        LET checks == debugInfo.checks
            n == Len(checks)
        IN  /\ n >= 1
            /\ debugInfo.section = section
            /\ InOrder(checks, section)
            /\ debugInfo.decidingCheck = checks[n].label
            /\ \A i \in 1..(n - 1) :
                    /\ checks[i].label # debugInfo.decidingCheck
                    /\ checks[i].result = "skip"
            /\ checks[n].result = turnStatus
            /\ turnStatus \in {"my-turn", "their-turn"}

\* an authored PR decided by its third check
C18_Witness ==
    /\ EnrichDone
    /\ section = "my-prs"
    /\ Len(debugInfo.checks) = 3
    /\ debugInfo.decidingCheck = "Changes requested"
    /\ turnStatus = "my-turn"

----------------------------------------------------------------------------
(* Properties of the reviews determineMyPrTurn reads *)

\* a review determineMyPrTurn skips: not submitted, or the author's own
Skipped(review) ==
    \/ review.state = "PENDING"
    \/ ToLower(review.login) = ToLower(authorLogin)

\* the reviews without the skipped ones, in their order
Counted(revs) == SelectSeq(revs, LAMBDA review : ~Skipped(review))

\* verdict and deciding check of an authored PR
Decision(revs) ==
    LET r == determineMyPrTurn(revs, requestedReviewers, authorLogin,
                               nullish(mergeableState))
    IN  <<r.turnStatus, r.debugInfo.decidingCheck>>

\* C19: verdict and deciding check of an authored PR are those of its
\* submitted reviews by others alone: two review lists that differ only in
\* PENDING reviews and in reviews of the author, of any state and in
\* either letter case, are decided alike.
C19_SkippedReviewsIgnored ==
    (pc = "enriched" /\ section = "my-prs") =>
        Decision(Counted(reviews)) = <<turnStatus, debugInfo.decidingCheck>>

\* the author's own change request, under the login in another letter
\* case, next to an approval: the approval alone decides, at the merge state
C19_Witness ==
    /\ pc = "enriched"
    /\ section = "my-prs"
    /\ \E i \in DOMAIN reviews :
            reviews[i].login = AuthorReviewer /\ reviews[i].state = "CHANGES_REQUESTED"
    /\ Len(Counted(reviews)) = 1
    /\ Len(debugInfo.checks) = 4
    /\ turnStatus = "their-turn"

----------------------------------------------------------------------------
(* Properties of a re-request on an authored PR *)

\* some reviewer whose change request stands is asked to review again
\* while another submitter is not
PartialReRequest ==
    /\ \E i \in OtherSubmitted :
            EffectiveChangesRequested(i) /\ IsRequested(reviews[i].login)
    /\ \E j \in OtherSubmitted : ~IsRequested(reviews[j].login)

\* verdict and deciding check of an authored PR, from its reviews, its
\* individually requested reviewers and its merge state
ExpectedDecision ==
    IF OtherSubmitted = {}
    THEN <<"their-turn", "No reviews submitted yet">>
    ELSE IF \A i \in OtherSubmitted : IsRequested(reviews[i].login)
    THEN <<"their-turn", "All submitters re-requested">>
    ELSE IF \E i \in OtherSubmitted : EffectiveChangesRequested(i)
    THEN <<"my-turn", "Changes requested">>
    ELSE <<MergeVerdict(mergeableState), MergeLabel(mergeableState)>>

\* C26: an authored PR on which a reviewer with a standing change request
\* is requested again while another submitter is not, is my-turn, decided
\* by "Changes requested"; and whatever teams are pending, verdict and
\* deciding check of an authored PR are those its reviews, its
\* individually requested reviewers and its merge state give.
C26_PartialReRequestKeepsChangeRequest ==
    MyPrDone =>
        /\ PartialReRequest => Decided(3, "Changes requested", "my-turn")
        /\ <<turnStatus, debugInfo.decidingCheck>> = ExpectedDecision

\* bob's change request stands and bob is requested again, alice has
\* approved and is not, and two teams are pending
C26_Witness ==
    /\ MyPrDone
    /\ PartialReRequest
    /\ reviews = <<[login |-> "bob", state |-> "CHANGES_REQUESTED"],
                   [login |-> "alice", state |-> "APPROVED"]>>
    /\ requestedReviewers = <<"bob">>
    /\ requestedTeams = <<"platform", "infra">>
    /\ mergeableState = "blocked"
    /\ turnStatus = "my-turn"

----------------------------------------------------------------------------
(* Properties of dismissed reviews *)

\* indices of the submitted reviews, the author's included
Submitted == {i \in DOMAIN reviews : reviews[i].state # "PENDING"}

\* the last submitted review of the reviewer of review i is a dismissed one
LastIsDismissed(i) ==
    LET own == {j \in Submitted : reviews[j].login = reviews[i].login}
    IN  \E j \in own : reviews[j].state = "DISMISSED" /\ \A k \in own : k <= j

\* someone other than the author has submitted a review, every reviewer's
\* last submitted review is dismissed, and nobody is asked to review
DismissedOnly ==
    /\ OtherSubmitted # {}
    /\ \A i \in Submitted : LastIsDismissed(i)
    /\ requestedReviewers = <<>>
    /\ requestedTeams = <<>>

\* C27: an authored PR whose reviewers' reviews are all dismissed in the
\* end and which has no pending request has the summary "No reviews",
\* although its verdict is not that of the first check: all four checks
\* are recorded and the merge state decides.
C27_DismissedCountsForVerdictOnly ==
    (MyPrDone /\ DismissedOnly) =>
        /\ reviewSummary = "No reviews"
        /\ Decided(4, MergeLabel(mergeableState), MergeVerdict(mergeableState))
        /\ debugInfo.checks[1].label = "No reviews submitted yet"
        /\ debugInfo.checks[1].result = "skip"

\* bob's approval was dismissed: no summary bucket, and the clean merge
\* state makes it the author's turn
C27_Witness ==
    /\ MyPrDone
    /\ DismissedOnly
    /\ reviews = <<[login |-> "bob", state |-> "APPROVED"],
                   [login |-> "bob", state |-> "DISMISSED"]>>
    /\ mergeableState = "clean"
    /\ reviewSummary = "No reviews"
    /\ turnStatus = "my-turn"
    /\ Len(debugInfo.checks) = 4

----------------------------------------------------------------------------
(* Properties of the effective state *)

\* the states of the submitted reviews of a reviewer, in the order of the
\* list; the reviewer is the login as received (summary) or lower-cased
\* (verdict)
RECURSIVE SubmittedStates(_, _, _)
SubmittedStates(revs, login, lower) ==
    IF revs = <<>> THEN <<>>
    ELSE LET review == Head(revs)
             who == IF lower THEN ToLower(review.login) ELSE review.login
         IN  (IF who = login /\ review.state # "PENDING"
              THEN <<review.state>> ELSE <<>>)
                 \o SubmittedStates(Tail(revs), login, lower)

NoState == "<none>"

\* the fold as the specification words it: the previous state is carried
\* forward unless the new one is APPROVED, CHANGES_REQUESTED or DISMISSED;
\* COMMENTED counts only as a first review
RECURSIVE CarriedForward(_)
CarriedForward(states) ==
    IF states = <<>> THEN NoState
    ELSE LET n == Len(states)
             prev == CarriedForward(SubSeq(states, 1, n - 1))
         IN  IF states[n] \in {"APPROVED", "CHANGES_REQUESTED", "DISMISSED"}
                \/ prev = NoState
             THEN states[n] ELSE prev

\* the fold in which COMMENTED also replaces DISMISSED
RECURSIVE Effective(_)
Effective(states) ==
    IF states = <<>> THEN NoState
    ELSE LET n == Len(states)
             prev == Effective(SubSeq(states, 1, n - 1))
         IN  IF states[n] \in {"APPROVED", "CHANGES_REQUESTED", "DISMISSED"}
                \/ prev \notin {"APPROVED", "CHANGES_REQUESTED"}
             THEN states[n] ELSE prev

\* the state a fold of the code holds for a reviewer
Held(latestByUser, login) ==
    IF login \in DOMAIN latestByUser THEN latestByUser[login] ELSE NoState

ReviewLogins == {reviews[i].login : i \in DOMAIN reviews}

\* C21 as stated: in both folds a COMMENTED review changes the effective
\* state of its reviewer only when it is the reviewer's first submitted
\* review, so that [DISMISSED, COMMENTED] yields DISMISSED.
C21_AsStated ==
    MyPrDone =>
        \A login \in ReviewLogins :
            /\ Held(summaryLatestByUser, login)
                    = CarriedForward(SubmittedStates(reviews, login, FALSE))
            /\ (Len(debugInfo.checks) >= 3 /\ ToLower(login) # ToLower(authorLogin))
                    => Held(turnLatestByUser, ToLower(login))
                            = CarriedForward(SubmittedStates(reviews, ToLower(login), TRUE))

\* C21: in both folds the effective state of a reviewer carries the
\* previous one forward only over a COMMENTED review that follows an
\* effective APPROVED or CHANGES_REQUESTED; after DISMISSED a COMMENTED
\* review becomes the effective state: [DISMISSED, COMMENTED] and
\* [APPROVED, DISMISSED, COMMENTED] yield COMMENTED.
C21_CommentedReplacesDismissed ==
    MyPrDone =>
        /\ \A login \in ReviewLogins :
            /\ Held(summaryLatestByUser, login)
                    = Effective(SubmittedStates(reviews, login, FALSE))
            /\ (Len(debugInfo.checks) >= 3 /\ ToLower(login) # ToLower(authorLogin))
                    => Held(turnLatestByUser, ToLower(login))
                            = Effective(SubmittedStates(reviews, ToLower(login), TRUE))
        /\ AliceReviews(<<"DISMISSED", "COMMENTED">>) => AliceState("COMMENTED")
        /\ AliceReviews(<<"APPROVED", "DISMISSED", "COMMENTED">>)
                => AliceState("COMMENTED")

\* alice approves, the approval is dismissed, alice comments: both folds
\* hold COMMENTED for alice
C21_Witness ==
    /\ MyPrDone
    /\ AliceReviews(<<"APPROVED", "DISMISSED", "COMMENTED">>)
    /\ requestedReviewers = <<>>
    /\ Len(debugInfo.checks) = 4
    /\ turnLatestByUser["alice"] = "COMMENTED"
    /\ summaryLatestByUser["alice"] = "COMMENTED"
    /\ reviewSummary = "1 commented"

----------------------------------------------------------------------------
(* Properties of the order of the reviews *)

\* the reviews in the order of their submission
Chronological(revs) ==
    [t \in 1..Len(revs) |->
        revs[CHOOSE i \in 1..Len(revs) : revs[i].submitted_at = t]]

\* the list with the reviews at i and i + 1 exchanged
Exchanged(revs, i) ==
    [k \in 1..Len(revs) |->
        IF k = i THEN revs[i + 1] ELSE IF k = i + 1 THEN revs[i] ELSE revs[k]]

\* the effective states in both folds are the folds of the given list
FoldsOf(revs) ==
    \A login \in ReviewLogins :
        /\ Held(summaryLatestByUser, login)
                = Effective(SubmittedStates(revs, login, FALSE))
        /\ (Len(debugInfo.checks) >= 3 /\ ToLower(login) # ToLower(authorLogin))
                => Held(turnLatestByUser, ToLower(login))
                        = Effective(SubmittedStates(revs, ToLower(login), TRUE))

\* verdict, deciding check and summary of the PR are those of the list
SameOutcome(revs) ==
    /\ Decision(revs) = <<turnStatus, debugInfo.decidingCheck>>
    /\ buildReviewSummary(revs, requestedReviewers, requestedTeams) = reviewSummary

----------------------------------------------------------------------------
(* Properties of the polling hooks *)

\* the step completes a fetch
Completes == Len(browser'.completed) = Len(browser.completed) + 1

\* the fetch a completing step completes, with its outcome
Completed == browser'.completed[Len(browser'.completed)]

\* a fetch has succeeded before
HasSucceeded == \E i \in DOMAIN browser.completed : browser.completed[i].ok

\* a step that completes a fetch with a success sets data to its result
\* and clears error; one that completes it with a failure sets error, leaves
\* data as it is once a fetch has succeeded, and changes data, to null, at
\* most as the first completion
StaleDataKept ==
    Completes =>
        IF Completed.ok
        THEN /\ hookState'.data = resultOf(Completed.fetch)
             /\ hookState'.error = NULL
        ELSE /\ hookState'.error # NULL
             /\ HasSucceeded => hookState'.data = hookState.data
             /\ hookState'.data # hookState.data
                    => hookState'.data = NULL /\ browser.completed = <<>>

\* C23: stale data is kept in both hooks: a failed fetch sets error and,
\* once a fetch has succeeded, leaves data unchanged; a failure resets
\* data only as the first fetch to complete; a successful fetch sets data
\* to the new result and clears error; a new URL of usePolling resets data.
C23_StaleDataKept ==
    [][/\ StaleDataKept
       /\ hookProps'.url # hookProps.url => hookState'.data = NULL]_vars

\* the second fetch has failed after the first succeeded: its error is
\* shown with the result of the first
C23_Witness ==
    /\ pc = "mounted"
    /\ browser.completed = <<[fetch |-> 1, ok |-> TRUE], [fetch |-> 2, ok |-> FALSE]>>
    /\ hookState.data = resultOf(1)
    /\ hookState.error # NULL

----------------------------------------------------------------------------
(* Properties of the fan-in of a run *)

\* the requests the handler awaits together at a step
Siblings(at) ==
    CASE at = "searching" -> SearchRequests
      [] at = "enriching" -> {d \in DetailRequests : requests[d].issued > 0}
      [] OTHER -> {}

\* the code owed to the message of a failure
CodeOf(message) ==
    IF startsWith(message, "RATE_LIMITED:") THEN "RATE_LIMITED" ELSE "GITHUB_API_ERROR"

\* C24: in the search step and in the enrichment step the first failure
\* of a sibling request ends the step at once, with siblings still in
\* flight, the code of the error response is that of this failure, and no
\* later failure of a sibling changes the response.
C24_FailFastFanIn ==
    [][/\ \A r \in Siblings(pc) :
            (requests[r].state = "inflight" /\ requests'[r].state = "failed")
                => /\ pc' = "responded"
                   /\ response'.code = CodeOf(requests'[r].message)
                   /\ response'.status = (IF response'.code = "RATE_LIMITED"
                                          THEN 429 ELSE 502)
       /\ \A r \in Siblings(pc') : requests'[r].state # "failed"
       /\ pc = "responded" => response' = response /\ pc' = pc]_vars

\* a search failed with a server error and ended the run; the rate-limit
\* answer to another search came later and the third is still in flight
C24_Witness ==
    /\ RunFailed
    /\ response.code = "GITHUB_API_ERROR"
    /\ Failed(<<"author", 0>>)
    /\ ~startsWith(requests[<<"author", 0>>].message, "RATE_LIMITED:")
    /\ Failed(<<"reviewed-by", 0>>)
    /\ startsWith(requests[<<"reviewed-by", 0>>].message, "RATE_LIMITED:")
    /\ requests[<<"review-requested", 0>>].state = "inflight"

\* position of a PR in a list of search items
IndexIn(items, id) == CHOOSE i \in DOMAIN items : items[i].id = id

\* a category of the response holds the enriched PRs of the items, each
\* once, my-turn first, then the later update first, then in the order of
\* the items
Arranged(out, items, sec) ==
    /\ Len(out) = Len(items)
    /\ \A i \in DOMAIN items :
          \E k \in DOMAIN out :
              out[k] = enrichPr(items[i], sec, githubUsername,
                                items[i].id \in reviewRequestedIds /\ sec # "my-prs")
    /\ \A i, j \in DOMAIN out :
          i < j =>
            \/ out[i].turnStatus = "my-turn" /\ out[j].turnStatus # "my-turn"
            \/ /\ out[i].turnStatus = out[j].turnStatus
               /\ out[i].updatedAt > out[j].updatedAt
            \/ /\ out[i].turnStatus = out[j].turnStatus
               /\ out[i].updatedAt = out[j].updatedAt
               /\ IndexIn(items, out[i].id) < IndexIn(items, out[j].id)

\* C25: when every request succeeds the response is the same whatever
\* the order in which the requests complete: each category holds the
\* enriched PRs of its search items in the order sortPrs gives the items,
\* ties in the order of the search results.
C25_SameResponseInEveryOrder ==
    RunSucceeded =>
        /\ Arranged(response.myPrs, myPrItems, "my-prs")
        /\ Arranged(response.reviewRequests, dedupedReviewItems, "review-requests")
        /\ response.githubUsername = githubUsername

\* two PRs under review with the same verdict and time of update stand
\* in the order of the search result, next to both PRs of the viewer
C25_Witness ==
    /\ RunSucceeded
    /\ reviewRequestItems = <<>>
    /\ dedupedReviewItems = <<Item(4), Item(3)>>
    /\ Len(response.reviewRequests) = 2
    /\ response.reviewRequests[1].id = 4
    /\ response.reviewRequests[2].id = 3
    /\ response.reviewRequests[1].turnStatus = response.reviewRequests[2].turnStatus
    /\ Len(response.myPrs) = 2

----------------------------------------------------------------------------
(* Properties of steps 1 and 2 of the route *)

\* no request of the given ones has gone out
NoneIssued(names) == \A r \in names : requests[r].issued = 0

\* C28: when the user resolution of PAT mode fails, for whatever reason
\* and for a used-up rate limit too, the run ends with status 502 and code
\* GITHUB_API_ERROR and sends no search and no per-PR request; and a run
\* refused as UNAUTHORIZED has status 401 and has sent no request at all.
C28_UserResolutionFailure ==
    /\ requests[UserRequest].state = "failed" =>
          /\ pc = "responded"
          /\ response.status = 502
          /\ response.code = "GITHUB_API_ERROR"
          /\ NoneIssued(SearchRequests \cup DetailRequests)
    /\ (pc = "responded" /\ response.code = "UNAUTHORIZED") =>
          /\ response.status = 401
          /\ NoneIssued(RequestNames)

\* the user resolution failed on the rate limit
C28_Witness ==
    /\ pc = "responded"
    /\ requests[UserRequest].issued = 1
    /\ requests[UserRequest].state = "failed"
    /\ startsWith(requests[UserRequest].message, "RATE_LIMITED:")
    /\ response.code = "GITHUB_API_ERROR"
    /\ NoneIssued(SearchRequests)

----------------------------------------------------------------------------
(* Properties of the interval timer of the polling hooks *)

\* at most one interval timer is live
OneTimer == Cardinality(browser.timers) <= 1

\* useDashboardPolling with enabled false has no live timer
NoTimerWhileDisabled == ~polls(Hook) => browser.timers = {}

\* the document is hidden and no timer is live
PausedWhileHidden == browser.hidden => browser.timers = {}

\* a manual refresh of a polling hook leaves exactly one timer, set by the
\* refresh itself with the interval of the render
RefreshRestarts ==
    (Refresh /\ polls(Hook)) =>
        /\ browser'.timers = {[id |-> browser.made + 1,
                               intervalMs |-> hookProps.intervalMs]}
        /\ browser.made + 1 \notin {t.id : t \in browser.timers}

\* C29: after any sequence of mount, manual refresh, visibility change,
\* interval change and enabling or disabling, at most one interval timer is
\* live; none is live while enabled is false; none is live from a change to
\* hidden until the next change to visible, which for a hook mounted in a
\* visible document is every state of a hidden document; and a manual
\* refresh while the hook polls clears the timer and sets a new one.
C29_TimerInvariant ==
    /\ []OneTimer
    /\ []NoTimerWhileDisabled
    /\ []PausedWhileHidden
    /\ [][RefreshRestarts]_vars

----------------------------------------------------------------------------
(* Properties of concurrent fetches of the polling hooks *)

\* a step in which the user refreshes, the timer fires, or the document
\* becomes visible to a hook that listens
StartsFetch ==
    \/ Refresh
    \/ Tick
    \/ VisibilityChange /\ ~browser'.hidden /\ listens(Hook)

\* the messages a failure of fetch f may leave in error
MessagesOf(f) == {messageOf(Hook, f, kind) : kind \in Failures}

\* no fetch is in flight and the last fetch to complete left data and
\* error as they are
LastCompletedShows ==
    (browser.inFlight = {} /\ browser.completed # <<>>) =>
        LET last == browser.completed[Len(browser.completed)]
        IN  IF last.ok
            THEN hookState.data = resultOf(last.fetch) /\ hookState.error = NULL
            ELSE hookState.error \in MessagesOf(last.fetch)

\* a fetch started while others are in flight joins them, and a fetch
\* that completes writes its outcome and drops both flags whatever else is
\* in flight and whatever has completed before
Unserialized ==
    /\ (StartsFetch /\ browser.inFlight # {}) =>
          /\ browser'.inFlight = browser.inFlight \cup {browser.started + 1}
          /\ browser.started + 1 \notin browser.inFlight
    /\ Completes =>
          /\ browser'.inFlight = browser.inFlight \ {Completed.fetch}
          /\ ~hookState'.isLoading
          /\ ~hookState'.isRefreshing
          /\ IF Completed.ok
             THEN hookState'.data = resultOf(Completed.fetch) /\ hookState'.error = NULL
             ELSE hookState'.error \in MessagesOf(Completed.fetch)

\* C30: the fetches of the polling hooks are not serialized: a refresh, a
\* timer tick or a change to visible (of a hook that listens) while a fetch
\* is in flight starts another one next to it; a completing fetch writes
\* its result or its error whether or not it was the last to start, so
\* that once all have completed data and error are those of the fetch that
\* completed last; and isLoading and isRefreshing are false after every
\* completion, other fetches in flight or not.
C30_FetchesNotSerialized ==
    []LastCompletedShows /\ [][Unserialized]_vars

\* the second fetch completed before the first: the older result is shown
C30_Witness ==
    /\ pc = "mounted"
    /\ browser.inFlight = {}
    /\ browser.completed = <<[fetch |-> 2, ok |-> TRUE], [fetch |-> 1, ok |-> TRUE]>>
    /\ hookState.data = resultOf(1)
    /\ ~hookState.isLoading

====
